---- MODULE Spec2Model ----
(***************************************************************************)
(* Fusion AI backend: the admin credit-adjustment handler                  *)
(* (POST /api/admin/users/:userId/adjust-credits) running as concurrent    *)
(* request handlers over one PostgreSQL database.                          *)
(*                                                                         *)
(* Database semantics are those of PostgreSQL's default isolation level,   *)
(* READ COMMITTED: a plain SELECT reads the last committed row and takes   *)
(* no lock; INSERT ... ON CONFLICT DO UPDATE waits for the transaction     *)
(* that holds the row (or an uncommitted insert of the same key), then     *)
(* acts on the newest version of the row; a transaction's writes become    *)
(* visible to others at COMMIT and vanish at ROLLBACK.                     *)
(*                                                                         *)
(* Every await of the handler is one step; the synchronous code between    *)
(* two awaits belongs to the step of the await before it.                  *)
(***************************************************************************)
EXTENDS Integers, Sequences, FiniteSets, TLC

\* ---------------------------------------------------------------- bounds
\* number of adjust-credits requests that arrive in one behaviour
MaxReq == 2
\* number of database statements that are rejected in one behaviour
MaxFaults == 1

Reqs == 1..MaxReq

\* user ids that occur in requests; 1 and 2 are rows of users, 3 is not
UserIds == {1, 2, 3}

\* ------------------------------------------------- JavaScript values
\* A request-supplied value: typeof "undefined", "string" (a sequence of
\* one-character strings) or "number" (the rational num/den).
Undefined == [type |-> "undefined"]
Str(s) == [type |-> "string", str |-> s]
Num(n, d) == [type |-> "number", num |-> n, den |-> d]

\* typeof v
Typeof(v) == v.type

\* Number.isInteger(v) for a value whose typeof is "number"
NumberIsInteger(v) == v.num % v.den = 0

\* the integer a number value denotes, for an integer-valued one
NumberValue(v) == v.num \div v.den

\* !v : undefined, "" and 0 are falsy
Falsy(v) ==
    \/ v.type = "undefined"
    \/ v.type = "string" /\ v.str = <<>>
    \/ v.type = "number" /\ v.num = 0

IsSpace(c) == c = " "

RECURSIVE TrimStart(_)
TrimStart(s) ==
    IF s # <<>> /\ IsSpace(Head(s)) THEN TrimStart(Tail(s)) ELSE s

RECURSIVE TrimEnd(_)
TrimEnd(s) ==
    IF s # <<>> /\ IsSpace(s[Len(s)]) THEN TrimEnd(SubSeq(s, 1, Len(s) - 1)) ELSE s

\* String.prototype.trim
Trim(s) == TrimEnd(TrimStart(s))

Digits == {"0", "1", "2", "3", "4", "5", "6", "7", "8", "9"}

DigitValue(c) ==
    CASE c = "0" -> 0 [] c = "1" -> 1 [] c = "2" -> 2 [] c = "3" -> 3
      [] c = "4" -> 4 [] c = "5" -> 5 [] c = "6" -> 6 [] c = "7" -> 7
      [] c = "8" -> 8 [] c = "9" -> 9

RECURSIVE ParseDigits(_, _)
ParseDigits(s, acc) ==
    IF s # <<>> /\ Head(s) \in Digits
    THEN ParseDigits(Tail(s), 10 * acc + DigitValue(Head(s)))
    ELSE acc

\* parseInt(s, 10): <<n>> for the leading decimal digits of s after leading
\* white space, <<>> (NaN) when there is none
ParseInt(s) ==
    LET t == TrimStart(s) IN
    IF t # <<>> /\ Head(t) \in Digits THEN <<ParseDigits(t, 0)>> ELSE <<>>

\* ---------------------------------------------------------------- inputs
\* A request: req.user as the authentication middleware leaves it,
\* req.params.userId, req.body.amount_cents and req.body.reason.
Request(user, userId, amount_cents, reason) ==
    [user |-> user, userId |-> userId, amount_cents |-> amount_cents,
     reason |-> reason]

Admin == [type |-> "object", id |-> Num(1, 1)]

\* requests that pass the handler's checks: users 1, 2 and 3 as targets,
\* amounts -60, -50 and 50
GoodRequests ==
    {Request(Admin, userId, Num(n, 1), Str(<<"a">>)) :
        userId \in {<<"1">>, <<"2">>, <<"3">>}, n \in {0 - 60, 0 - 50, 50}}

\* requests that fail one check, or two
BadRequests ==
    {Request(Undefined, <<"1">>, Num(0 - 50, 1), Str(<<"a">>)),
     Request([type |-> "object", id |-> Undefined], <<"1">>, Num(0 - 50, 1), Str(<<"a">>)),
     Request(Admin, <<"x">>, Num(0 - 50, 1), Str(<<"a">>)),
     Request(Admin, <<"1">>, Num(0, 1), Str(<<"a">>)),
     Request(Admin, <<"1">>, Num(3, 2), Str(<<"a">>)),
     Request(Admin, <<"1">>, Str(<<"5">>), Str(<<"a">>)),
     Request(Admin, <<"1">>, Undefined, Str(<<"a">>)),
     Request(Admin, <<"1">>, Num(0 - 50, 1), Str(<<>>)),
     Request(Admin, <<"1">>, Num(0 - 50, 1), Str(<<" ">>)),
     Request(Admin, <<"1">>, Num(0 - 50, 1), Undefined),
     Request(Admin, <<"1">>, Num(0 - 50, 1), Num(7, 1)),
     Request(Admin, <<"2">>, Num(0, 1), Str(<<" ">>)),
     Request(Undefined, <<"x">>, Num(50, 1), Undefined)}

Requests == GoodRequests \cup BadRequests

\* ----------------------------------------------------------------- state
VARIABLES
    users,                \* ids of the rows of table users
    user_credits,         \* user id -> <<>> (no row) or <<balance_cents>>, committed
    credit_transactions,  \* committed rows of credit_transactions, in insertion order
    admin_actions_logs,   \* committed rows of admin_actions_logs, in insertion order
    rowLock,              \* user id -> the request whose transaction holds the
                          \* user_credits row (or its uncommitted insert), 0 if none
    nreq,                 \* requests that have arrived
    http,                 \* the request object a handler has not read yet
    pc,                   \* request -> the await its handler is at
    local,                \* request -> the handler's local variables
    txn,                  \* request -> the uncommitted writes of its transaction
    res,                  \* request -> the response sent
    faults,               \* database statements rejected so far
    overlapped,           \* history: another adjustment of the same user was in
                          \* flight while this one was
    applied               \* history: requests whose writes a COMMIT made visible

\* the state of the other parts of the backend, which the adjust-credits
\* handler neither reads nor writes
VARIABLES
    roles,                \* column users.role: user id -> role
    roleReq,              \* request -> the PUT /:userId/role handler serving it
    models,               \* rows of table models, in insertion order
    app_config,           \* table app_config: key -> <<>> (no row) or <<value>>
    call                  \* the cost-calculator call in progress

\* the state of the other admin routes
VARIABLES
    emails,               \* column users.email: user id -> email
    users_id_seq,         \* the sequence behind users.id SERIAL: its last value
    createReq,            \* request -> the POST /api/admin/users handler serving it
    syncReq,              \* request -> the POST /api/admin/models/sync handler serving it
    tmp,                  \* the temporary directory: path -> the file there
    spaces,               \* the objects stored in the Spaces bucket, in upload order
    uploads,              \* call -> the uploadTempFile call in progress
    api_keys,             \* committed rows of table api_keys, in insertion order
    keyReq                \* request -> the api-keys handler serving it

creditVars ==
    <<users, user_credits, credit_transactions, admin_actions_logs, rowLock, nreq,
      http, pc, local, txn, res, faults, overlapped, applied>>

roleVars == <<roles, roleReq>>

costVars == <<models, app_config, call>>

createVars == <<emails, users_id_seq, createReq>>

uploadVars == <<tmp, spaces, uploads>>

keyVars == <<api_keys, keyReq>>

adminVars ==
    <<emails, users_id_seq, createReq, syncReq, tmp, spaces, uploads, api_keys, keyReq>>

vars ==
    <<users, user_credits, credit_transactions, admin_actions_logs, rowLock, nreq,
      http, pc, local, txn, res, faults, overlapped, applied,
      roles, roleReq, models, app_config, call,
      emails, users_id_seq, createReq, syncReq, tmp, spaces, uploads,
      api_keys, keyReq>>

db == <<users, user_credits, credit_transactions, admin_actions_logs>>

NoRequest == Request(Undefined, <<>>, Undefined, Undefined)

NoLocals == [adminUserId |-> 0, targetUserId |-> 0, amount_cents |-> 0,
             rows |-> <<>>, currentBalanceCents |-> 0, projectedNewBalance |-> 0,
             newBalanceCents |-> 0]

NoWrites == [row |-> <<>>, tx |-> <<>>, log |-> <<>>]

NoResponse == [status |-> 0]

\* the awaits inside the try block at which the transaction is open
StatementPcs ==
    {"select", "userCheck", "upsert1", "upsert2", "upsert3", "insertTx", "log", "commit"}

InFlight(r) == pc[r] \in StatementPcs \cup {"catch"}

\* users.role as the adjust-credits requests find it: user 1 is the admin who
\* issues them
role_admin == <<"a", "d", "m", "i", "n">>

role_user == <<"u", "s", "e", "r">>

InitRoles == [u \in {1, 2} |-> IF u = 1 THEN role_admin ELSE role_user]

\* no role-update request is being served
NoRoleRequest ==
    [pc |-> "idle", adminUserId |-> 0, targetUserId |-> 0,
     newRole |-> Undefined,   \* req.body.role as received
     normalizedNewRole |-> <<>>, currentRole |-> <<>>,
     write |-> <<>>,      \* the uncommitted UPDATE of the transaction: <<role>>
     status |-> 0]

\* users.email as the requests find it
InitEmails == [u \in {1, 2} |-> IF u = 1 THEN <<"a">> ELSE <<"b">>]

\* no user-creation request is being served
NoCreateRequest ==
    [pc |-> "idle", adminUserId |-> 0, normalizedEmail |-> <<>>,
     role |-> Undefined,  \* req.body.role as received
     normalizedRole |-> <<>>,
     newUser |-> <<>>,    \* userResult.rows[0]: <<id>>
     userRow |-> <<>>,    \* the uncommitted INSERT INTO users: <<id>>
     credit |-> <<>>,     \* the uncommitted INSERT INTO user_credits: <<balance_cents>>
     code |-> <<>>,       \* the code of the error caught
     status |-> 0]

\* the paths of the temporary directory
TempPaths == {"tmp/1", "tmp/2"}

\* no file at a path
NoFile == [exists |-> FALSE, readable |-> FALSE, removable |-> FALSE]

\* no uploadTempFile call is in progress
NoUpload ==
    [pc |-> "idle", tempFilePath |-> "", filename |-> Undefined, mimeType |-> Undefined,
     read |-> FALSE,      \* fs.readFileSync returned the file's content
     result |-> <<>>]     \* what the call returned: <<UploadResult>>

\* what an api-keys handler answered: the status, the api_key of a creation
\* response and the api_keys of a listing response
NoKeyResponse == [status |-> 0, api_key |-> <<>>, api_keys |-> <<>>]

\* no api-keys request is being served
NoKeyRequest ==
    [pc |-> "idle", adminUserId |-> 0, targetUserId |-> 0, name |-> <<>>,
     apiKey |-> <<>>,     \* the key generateNewApiKey returned
     id |-> 0,            \* the id the INSERT drew from the sequence of api_keys
     row |-> <<>>,        \* the uncommitted INSERT INTO api_keys: <<row>>
     code |-> <<>>,       \* the code of the error caught
     res |-> NoKeyResponse]

NoStats == [created |-> 0, updated |-> 0, skipped |-> 0, errors |-> 0]

\* no model-sync request is being served
NoSyncRequest ==
    [pc |-> "idle", adminUserId |-> 0,
     cache |-> <<>>,      \* what the cache file holds: [file, data]
     targetModels |-> <<>>,   \* the models the loop has still to process
     existing |-> FALSE,  \* existingResult.rows.length > 0
     stats |-> NoStats,
     written |-> <<>>,    \* the cache models its transaction has upserted, uncommitted
     audit |-> <<>>,      \* the uncommitted row of admin_actions_logs
     aborted |-> FALSE,   \* a statement failed: PostgreSQL rejects the rest of
                          \* the transaction and turns its COMMIT into a ROLLBACK
     status |-> 0]

\* the other admin routes serve nothing
AdminIdle ==
    /\ emails = InitEmails
    /\ users_id_seq = 2
    /\ createReq = [r \in Reqs |-> NoCreateRequest]
    /\ syncReq = [r \in Reqs |-> NoSyncRequest]
    /\ tmp = [p \in TempPaths |-> NoFile]
    /\ spaces = <<>>
    /\ uploads = [r \in Reqs |-> NoUpload]
    /\ api_keys = <<>>
    /\ keyReq = [r \in Reqs |-> NoKeyRequest]

\* the keys of app_config that the cost calculator reads
ConfigKeys == {"pricing_prime_percentage", "neuroswitch_classifier_fee_cents"}

\* app_config as schema.sql seeds it: prime '20', classifier fee '1'
SeedConfig ==
    [k \in ConfigKeys |->
        IF k = "pricing_prime_percentage" THEN <<Str(<<"2", "0">>)>>
                                          ELSE <<Str(<<"1">>)>>]

\* no cost-calculator call is in progress
NoCall ==
    [pc |-> "idle", fn |-> "", neuroSwitchProvider |-> <<>>,
     modelIdString |-> Undefined, inputTokens |-> 0, outputTokens |-> 0,
     baseCost |-> [num |-> 0, den |-> 1],
     primeMultiplier |-> [num |-> 0, den |-> 1],
     ret |-> [num |-> 0, den |-> 1],
     failed |-> {}]       \* history: the reads of this call that failed

\* The database a deployment can be in when the requests arrive: user 1 bought
\* 100 cents of credit, user 2 registered and has no user_credits row, and
\* there is no user 3.
InitUsers == {1, 2}

InitCredits == [u \in UserIds |-> IF u = 1 THEN <<100>> ELSE <<>>]

InitTransactions ==
    <<[user_id |-> 1, amount_cents |-> 100, method |-> "stripe",
       status |-> "completed", by |-> 0]>>

Init ==
    /\ users = InitUsers
    /\ user_credits = InitCredits
    /\ credit_transactions = InitTransactions
    /\ admin_actions_logs = <<>>
    /\ rowLock = [u \in UserIds |-> 0]
    /\ nreq = 0
    /\ http = [r \in Reqs |-> NoRequest]
    /\ pc = [r \in Reqs |-> "idle"]
    /\ local = [r \in Reqs |-> NoLocals]
    /\ txn = [r \in Reqs |-> NoWrites]
    /\ res = [r \in Reqs |-> NoResponse]
    /\ faults = 0
    /\ overlapped = [r \in Reqs |-> FALSE]
    /\ applied = {}
    /\ roles = InitRoles
    /\ roleReq = [r \in Reqs |-> NoRoleRequest]
    /\ models = <<>>
    /\ app_config = SeedConfig
    /\ call = NoCall
    /\ AdminIdle

\* ------------------------------------------------------- the handler's code
\* `!adminUser || typeof adminUser.id === 'undefined'`
Unauthorized(user) == Falsy(user) \/ Typeof(user.id) = "undefined"

\* `typeof amount_cents !== 'number' || !Number.isInteger(amount_cents) ||
\*  amount_cents === 0`
InvalidAmount(amount_cents) ==
    \/ Typeof(amount_cents) # "number"
    \/ ~NumberIsInteger(amount_cents)
    \/ NumberValue(amount_cents) = 0

\* the check of reason without the trim
InvalidReasonUntrimmed(reason) == Falsy(reason) \/ Typeof(reason) # "string"

\* `!reason || typeof reason !== 'string' || reason.trim() === ''`
InvalidReason(reason) ==
    \/ Falsy(reason)
    \/ Typeof(reason) # "string"
    \/ Trim(reason.str) = <<>>

\* the synchronous checks with a self-adjustment check like the self-demotion
\* check of the role route
ValidateRejectsSelf(q) ==
    IF Unauthorized(q.user)
    THEN [status |-> 401, error |-> "Admin user ID not found in token, unauthorized."]
    ELSE IF ParseInt(q.userId) = <<>>
    THEN [status |-> 400, error |-> "Invalid target user ID format."]
    ELSE IF ParseInt(q.userId)[1] = NumberValue(q.user.id)
    THEN [status |-> 403, error |-> "Admins cannot adjust their own credits."]
    ELSE IF InvalidAmount(q.amount_cents)
    THEN [status |-> 400, error |-> "Invalid amount_cents. Must be a non-zero integer."]
    ELSE IF InvalidReason(q.reason)
    THEN [status |-> 400,
          error |-> "Reason for credit adjustment is required and cannot be empty."]
    ELSE NoResponse

\* The response of the synchronous checks before pool.connect(), NoResponse
\* when the request passes them all.
Validate(q) ==
    IF Unauthorized(q.user)
    THEN [status |-> 401, error |-> "Admin user ID not found in token, unauthorized."]
    ELSE IF ParseInt(q.userId) = <<>>
    THEN [status |-> 400, error |-> "Invalid target user ID format."]
    ELSE IF InvalidAmount(q.amount_cents)
    THEN [status |-> 400, error |-> "Invalid amount_cents. Must be a non-zero integer."]
    ELSE IF InvalidReason(q.reason)
    THEN [status |-> 400,
          error |-> "Reason for credit adjustment is required and cannot be empty."]
    ELSE NoResponse

\* `creditResult.rows[0]?.balance_cents || 0`
CurrentBalance(rows) == IF rows = <<>> \/ rows[1] = 0 THEN 0 ELSE rows[1]

\* the projection with the sign of the amount lost
ProjectedNewBalanceMinus(currentBalanceCents, amount_cents) ==
    currentBalanceCents - amount_cents

\* `currentBalanceCents + amount_cents`
ProjectedNewBalance(currentBalanceCents, amount_cents) ==
    currentBalanceCents + amount_cents

\* the comparison of the negative-balance rule turned round
NegativeBalanceInverted(projectedNewBalance) == projectedNewBalance > 0

\* `projectedNewBalance < 0`
NegativeBalance(projectedNewBalance) == projectedNewBalance < 0

\* the test of the user lookup turned round
TargetNotFoundInverted(userRows, targetUserId) == targetUserId \in userRows

\* `userCheck.rows.length === 0` for SELECT id FROM users WHERE id = $1
TargetNotFound(userRows, targetUserId) == targetUserId \notin userRows

\* INSERT ... VALUES ($1, insertValue) ON CONFLICT (user_id)
\* DO UPDATE SET balance_cents = user_credits.balance_cents + delta
UpsertAdd(row, insertValue, delta) ==
    IF row = <<>> THEN <<insertValue>> ELSE <<row[1] + delta>>

\* the final upsert written like the two before it: it adds on conflict
UpsertSetAdds(row, value) ==
    IF row = <<>> THEN <<value>> ELSE <<row[1] + value>>

\* the final upsert with ON CONFLICT (user_id) DO NOTHING
UpsertSetDoesNothing(row, value) ==
    IF row = <<>> THEN <<value>> ELSE row

\* INSERT ... VALUES ($1, value) ON CONFLICT (user_id)
\* DO UPDATE SET balance_cents = value
UpsertSet(row, value) ==
    IF row = <<>> THEN <<value>> ELSE <<value>>

\* ------------------------------------------------------------- the database
\* the SELECT without its WHERE clause: the first row of the table
SelectCreditsFirstRow(credits, u) == credits[1]

\* SELECT balance_cents FROM user_credits WHERE user_id = u, at READ COMMITTED
\* and before the transaction has written: the committed row
SelectCredits(credits, u) == credits[u]

\* the version of u's row a write of r's transaction acts on: its own
\* uncommitted version if it wrote one, else the committed row
Visible(r, u) == IF txn[r].row # <<>> THEN txn[r].row ELSE user_credits[u]

\* a write to u's row proceeds when no other open transaction wrote it
RowAvailable(r, u) == rowLock[u] \in {0, r}

ReleaseLocks(r) == [u \in UserIds |-> IF rowLock[u] = r THEN 0 ELSE rowLock[u]]

\* COMMIT: the writes of r's transaction become the committed rows
CommitTxn(r) ==
    /\ user_credits' =
          IF txn[r].row = <<>> THEN user_credits
          ELSE [user_credits EXCEPT ![local[r].targetUserId] = txn[r].row]
    /\ credit_transactions' = credit_transactions \o txn[r].tx
    /\ admin_actions_logs' = admin_actions_logs \o txn[r].log
    /\ applied' = IF txn[r] = NoWrites THEN applied ELSE applied \cup {r}
    /\ txn' = [txn EXCEPT ![r] = NoWrites]
    /\ rowLock' = ReleaseLocks(r)
    /\ UNCHANGED users

\* the catch block ending the transaction with COMMIT
RollbackTxnCommits(r) == CommitTxn(r)

\* ROLLBACK: the writes of r's transaction are discarded
RollbackTxn(r) ==
    /\ txn' = [txn EXCEPT ![r] = NoWrites]
    /\ rowLock' = ReleaseLocks(r)
    /\ UNCHANGED <<db, applied>>

\* ------------------------------------------------------------------ actions
\* res.status(...).json(...) and, past pool.connect(), client.release()
Respond(r, response) ==
    /\ pc' = [pc EXCEPT ![r] = "done"]
    /\ res' = [res EXCEPT ![r] = response]

\* An adjust-credits request reaches the server. Node runs the handler up to
\* its first await without interruption, so at most one request is unread.
Arrive(r) ==
    /\ r = nreq + 1
    /\ pc[r] = "idle"
    /\ \A s \in Reqs : pc[s] # "received"
    /\ \E q \in Requests : http' = [http EXCEPT ![r] = q]
    /\ nreq' = nreq + 1
    /\ pc' = [pc EXCEPT ![r] = "received"]
    /\ UNCHANGED <<db, rowLock, local, txn, res, faults, overlapped, applied,
                 roleVars, costVars, adminVars>>

\* The handler up to `await client.query('BEGIN')`: the checks of the request,
\* then a connection and an open transaction.
Receive(r) ==
    /\ pc[r] = "received"
    /\ http' = [http EXCEPT ![r] = NoRequest]
    /\ LET q == http[r]
           rejection == Validate(q)
       IN  IF rejection # NoResponse
           THEN /\ Respond(r, rejection)
                /\ UNCHANGED <<local, overlapped>>
           ELSE LET t == ParseInt(q.userId)[1]
                    same == {s \in Reqs \ {r} : InFlight(s) /\ local[s].targetUserId = t}
                IN  /\ local' = [local EXCEPT ![r] =
                                    [NoLocals EXCEPT
                                        !.adminUserId = NumberValue(q.user.id),
                                        !.targetUserId = t,
                                        !.amount_cents = NumberValue(q.amount_cents)]]
                    /\ pc' = [pc EXCEPT ![r] = "select"]
                    /\ overlapped' = [s \in Reqs |->
                                        IF s = r THEN same # {}
                                        ELSE overlapped[s] \/ s \in same]
                    /\ UNCHANGED res
    /\ UNCHANGED <<db, rowLock, nreq, txn, faults, applied,
                 roleVars, costVars, adminVars>>

\* Steps 2 and 3 once the balance is known: the negative-balance rule.
\* A rejection rolls the (still empty) transaction back and answers 400.
CheckBalance(r, rows) ==
    LET currentBalanceCents == CurrentBalance(rows)
        projectedNewBalance ==
            ProjectedNewBalance(currentBalanceCents, local[r].amount_cents)
    IN  /\ local' = [local EXCEPT ![r].rows = rows,
                                  ![r].currentBalanceCents = currentBalanceCents,
                                  ![r].projectedNewBalance = projectedNewBalance]
        /\ IF NegativeBalance(projectedNewBalance)
           THEN /\ RollbackTxn(r)
                /\ Respond(r, [status |-> 400,
                               error |-> "Adjustment would result in a negative balance.",
                               current_balance_cents |-> currentBalanceCents])
           ELSE /\ pc' = [pc EXCEPT ![r] = "upsert1"]
                /\ UNCHANGED <<db, rowLock, txn, res, applied>>

\* `SELECT balance_cents FROM user_credits WHERE user_id = $1`
SelectBalance(r) ==
    /\ pc[r] = "select"
    /\ LET rows == SelectCredits(user_credits, local[r].targetUserId)
       IN  IF rows = <<>>
           THEN /\ local' = [local EXCEPT ![r].rows = rows]
                /\ pc' = [pc EXCEPT ![r] = "userCheck"]
                /\ UNCHANGED <<db, rowLock, txn, res, applied>>
           ELSE CheckBalance(r, rows)
    /\ UNCHANGED <<nreq, http, faults, overlapped,
                 roleVars, costVars, adminVars>>

\* `SELECT id FROM users WHERE id = $1`, asked when there is no credit row
SelectUser(r) ==
    /\ pc[r] = "userCheck"
    /\ IF TargetNotFound(users, local[r].targetUserId)
       THEN /\ RollbackTxn(r)
            /\ Respond(r, [status |-> 404, error |-> "Target user not found."])
            /\ UNCHANGED local
       ELSE CheckBalance(r, local[r].rows)
    /\ UNCHANGED <<nreq, http, faults, overlapped,
                 roleVars, costVars, adminVars>>

\* One of the handler's three statements on the user_credits row: it waits
\* for the row, then leaves `row` as the transaction's version of it.
WriteCredits(r, at, next, row) ==
    /\ pc[r] = at
    /\ RowAvailable(r, local[r].targetUserId)
    /\ txn' = [txn EXCEPT ![r].row = row]
    /\ rowLock' = [rowLock EXCEPT ![local[r].targetUserId] = r]
    /\ pc' = [pc EXCEPT ![r] = next]
    /\ UNCHANGED <<db, nreq, http, res, faults, overlapped, applied,
                 roleVars, costVars, adminVars>>

\* updateCreditResult: insert amount_cents, or add amount_cents to the row
Upsert1(r) ==
    /\ WriteCredits(r, "upsert1", "upsert2",
                    UpsertAdd(Visible(r, local[r].targetUserId),
                              local[r].amount_cents, local[r].amount_cents))
    /\ UNCHANGED local

\* finalNewBalanceResult: insert projected, or add amount_cents to the row
Upsert2(r) ==
    /\ WriteCredits(r, "upsert2", "upsert3",
                    UpsertAdd(Visible(r, local[r].targetUserId),
                              local[r].projectedNewBalance, local[r].amount_cents))
    /\ UNCHANGED local

\* finalUpsertResult: insert projected, or set the row to projected;
\* newBalanceCents is the balance_cents it returns
Upsert3(r) ==
    LET row == UpsertSet(Visible(r, local[r].targetUserId),
                         local[r].projectedNewBalance)
    IN  /\ WriteCredits(r, "upsert3", "insertTx", row)
        /\ local' = [local EXCEPT ![r].newBalanceCents = row[1]]

\* `INSERT INTO credit_transactions (user_id, amount_cents, method, status, ...)`
\* (`by` is history: the request that inserted the row)
InsertTransaction(r) ==
    /\ pc[r] = "insertTx"
    /\ txn' = [txn EXCEPT ![r].tx =
                  Append(@, [user_id |-> local[r].targetUserId,
                             amount_cents |-> local[r].amount_cents,
                             method |-> "admin_adjustment",
                             status |-> "completed",
                             by |-> r])]
    /\ pc' = [pc EXCEPT ![r] = "log"]
    /\ UNCHANGED <<db, rowLock, nreq, http, local, res, faults, overlapped, applied,
                 roleVars, costVars, adminVars>>

\* logAdminAction(adminUserId, 'USER_CREDIT_ADJUSTMENT', 'USER', targetUserId,
\* logDetails, reason, client): a row of admin_actions_logs written through the
\* transaction's client
LogAdminAction(r) ==
    /\ pc[r] = "log"
    /\ txn' = [txn EXCEPT ![r].log =
                  Append(@, [admin_user_id |-> local[r].adminUserId,
                             action_type |-> "USER_CREDIT_ADJUSTMENT",
                             target_entity_id |-> local[r].targetUserId,
                             adjusted_amount_cents |-> local[r].amount_cents,
                             previous_balance_cents |-> local[r].currentBalanceCents,
                             new_balance_cents |-> local[r].newBalanceCents,
                             by |-> r])]
    /\ pc' = [pc EXCEPT ![r] = "commit"]
    /\ UNCHANGED <<db, rowLock, nreq, http, local, res, faults, overlapped, applied,
                 roleVars, costVars, adminVars>>

\* `await client.query('COMMIT')`, the 200 response and client.release()
Commit(r) ==
    /\ pc[r] = "commit"
    /\ CommitTxn(r)
    /\ Respond(r, [status |-> 200,
                   user_id |-> local[r].targetUserId,
                   previous_balance_cents |-> local[r].currentBalanceCents,
                   adjusted_amount_cents |-> local[r].amount_cents,
                   new_balance_cents |-> local[r].newBalanceCents])
    /\ UNCHANGED <<nreq, http, local, faults, overlapped,
                 roleVars, costVars, adminVars>>

\* the awaits of the try block that are client.query calls of the handler
QueryPcs == StatementPcs \ {"log"}

\* A query of the try block (a SELECT, an upsert, the INSERT or COMMIT) is
\* rejected, for whatever reason the server has: control passes to the catch
\* block with the transaction aborted and its locks still held.
QueryFails(r) ==
    /\ pc[r] \in QueryPcs
    /\ faults < MaxFaults
    /\ faults' = faults + 1
    /\ pc' = [pc EXCEPT ![r] = "catch"]
    /\ UNCHANGED <<db, rowLock, nreq, http, local, txn, res, overlapped, applied,
                 roleVars, costVars, adminVars>>

\* logAdminAction cannot write its row: it throws, into the same catch block
LogAdminActionFails(r) ==
    /\ pc[r] = "log"
    /\ faults < MaxFaults
    /\ faults' = faults + 1
    /\ pc' = [pc EXCEPT ![r] = "catch"]
    /\ UNCHANGED <<db, rowLock, nreq, http, local, txn, res, overlapped, applied,
                 roleVars, costVars, adminVars>>

\* catch: `await client.query('ROLLBACK')`, the 500 response; finally:
\* client.release()
CatchRollback(r) ==
    /\ pc[r] = "catch"
    /\ RollbackTxn(r)
    /\ Respond(r, [status |-> 500, error |-> "Failed to adjust user credits."])
    /\ UNCHANGED <<nreq, http, local, faults, overlapped,
                 roleVars, costVars, adminVars>>

Next ==
    \E r \in Reqs :
        \/ Arrive(r)
        \/ Receive(r)
        \/ SelectBalance(r)
        \/ SelectUser(r)
        \/ Upsert1(r)
        \/ Upsert2(r)
        \/ Upsert3(r)
        \/ InsertTransaction(r)
        \/ LogAdminAction(r)
        \/ Commit(r)
        \/ QueryFails(r)
        \/ LogAdminActionFails(r)
        \/ CatchRollback(r)

Spec == Init /\ [][Next]_vars

\* ================================================================== claims
\* the stored balance of u, 0 when u has no user_credits row
Balance(u) == IF user_credits[u] = <<>> THEN 0 ELSE user_credits[u][1]

RECURSIVE SumAmounts(_, _)
\* the sum of amount_cents over u's rows among `rows`
SumAmounts(rows, u) ==
    IF rows = <<>> THEN 0
    ELSE (IF Head(rows).user_id = u THEN Head(rows).amount_cents ELSE 0)
         + SumAmounts(Tail(rows), u)

\* the rows of u among `rows`, in order
RowsOf(rows, u) == SelectSeq(rows, LAMBDA row : row.user_id = u)

\* the rows among `rows` that request r inserted
RowsBy(rows, r) == SelectSeq(rows, LAMBDA row : row.by = r)

Succeeded(r) == pc[r] = "done" /\ res[r].status = 200

RejectedNegative(r) ==
    pc[r] = "done" /\ res[r].status = 400 /\ "current_balance_cents" \in DOMAIN res[r]

\* C1 (as claimed): adjustments of -50 and -60 cents of user 1, whose balance
\* is 100 cents, end with exactly one applied and the other rejected for
\* negative balance, and the balance is 100 plus the applied amount, whatever
\* the interleaving of their statements (no other adjustment has committed).
C1_ExactlyOneOfTwoSucceeds ==
    \A r, s \in Reqs :
        ( /\ pc[r] = "done" /\ pc[s] = "done"
          /\ res[r].status # 500 /\ res[s].status # 500
          /\ local[r].targetUserId = 1 /\ local[r].amount_cents = 0 - 50
          /\ local[s].targetUserId = 1 /\ local[s].amount_cents = 0 - 60
          /\ applied \subseteq {r, s} )
        => \/ Succeeded(r) /\ RejectedNegative(s) /\ user_credits[1] = <<50>>
           \/ Succeeded(s) /\ RejectedNegative(r) /\ user_credits[1] = <<40>>

\* C2 (as claimed): in every committed state each user's balance_cents is the
\* sum of amount_cents over the user's credit_transactions rows.
C2_BalanceIsSumOfTransactions ==
    \A u \in UserIds : Balance(u) = SumAmounts(credit_transactions, u)

\* C3: in every committed state every stored balance_cents is >= 0.
C3_BalanceNeverNegative ==
    \A u \in UserIds : user_credits[u] # <<>> => user_credits[u][1] >= 0

\* C3's case: two adjustments of one user that were in flight together have
\* both committed.
C3_Witness ==
    \E r, s \in Reqs :
        /\ r # s /\ Succeeded(r) /\ Succeeded(s)
        /\ overlapped[r] /\ overlapped[s]
        /\ local[r].targetUserId = local[s].targetUserId
        /\ local[r].amount_cents < 0 /\ local[s].amount_cents < 0

\* the credit_transactions row of request r's adjustment
AdjustmentRow(r) ==
    [user_id |-> local[r].targetUserId, amount_cents |-> local[r].amount_cents,
     method |-> "admin_adjustment", status |-> "completed", by |-> r]

\* request r's handler answers in this step, and not from its catch block
Answers(r) == InFlight(r) /\ pc[r] # "catch" /\ pc'[r] = "done"

C5_OverdraftRejected ==
    [][\A r \in Reqs :
         LET t == local[r].targetUserId
             amount == local[r].amount_cents
             B == Balance(t)
         IN  ( /\ pc[r] \in {"select", "userCheck"}
               /\ pc'[r] \in {"upsert1", "done"}
               /\ t \in users
               /\ amount < 0 - B )
             => /\ pc'[r] = "done"
                /\ res'[r].status = 400
                /\ txn'[r] = NoWrites
                /\ r \notin applied'
                /\ UNCHANGED <<user_credits, credit_transactions, admin_actions_logs>>
      ]_vars

\* C5's case: a deduction larger than a positive balance was rejected and the
\* balance is still that balance.
C5_Witness ==
    \E r \in Reqs :
        /\ RejectedNegative(r)
        /\ res[r].current_balance_cents > 0
        /\ local[r].amount_cents < 0 - res[r].current_balance_cents
        /\ Balance(local[r].targetUserId) = res[r].current_balance_cents
        /\ RowsBy(credit_transactions, r) = <<>>
        /\ RowsBy(admin_actions_logs, r) = <<>>

\* request r's handler went through its catch block
Failed(r) == pc[r] = "catch" \/ (pc[r] = "done" /\ res[r].status = 500)

\* C6: the balance write, the credit_transactions row and the audit-log row
\* of one adjustment become visible together or not at all, and an adjustment
\* one of whose statements (the upserts, the INSERT, logAdminAction, COMMIT)
\* was rejected leaves none of them visible and answers only the generic
\* failure.
C6_AllOrNothing ==
    \A r \in Reqs :
        /\ Len(RowsBy(credit_transactions, r)) = (IF r \in applied THEN 1 ELSE 0)
        /\ Len(RowsBy(admin_actions_logs, r)) = (IF r \in applied THEN 1 ELSE 0)
        /\ Failed(r) => r \notin applied
        /\ (Failed(r) /\ pc[r] = "done")
              => res[r] = [status |-> 500, error |-> "Failed to adjust user credits."]
        /\ r \in applied => Succeeded(r)

\* C6's case: an adjustment of user 1 failed after its final upsert had set
\* the row to 50, and the stored balance is still 100 with no row of it.
C6_Witness ==
    \E r \in Reqs :
        /\ pc[r] = "done" /\ res[r].status = 500
        /\ local[r].targetUserId = 1 /\ local[r].newBalanceCents = 50
        /\ user_credits[1] = <<100>>
        /\ credit_transactions = InitTransactions
        /\ admin_actions_logs = <<>>

\* C7 (as claimed): inside an adjustment's transaction the credit row only
\* ever holds the balance read in step 1 or the projected balance.
C7_RowIsCurrentOrProjected ==
    \A r \in Reqs :
        (InFlight(r) /\ txn[r].row # <<>>)
            => txn[r].row[1] \in {local[r].currentBalanceCents,
                                  local[r].projectedNewBalance}

\* amount_cents is not a number, not an integer, or zero
C8_BadAmount(v) == v.type # "number" \/ v.num % v.den # 0 \/ v.num = 0

\* reason is missing, not a string, or consists of white space only
C8_BadReason(v) == v.type # "string" \/ \A i \in 1..Len(v.str) : v.str[i] = " "

\* C8: a request whose amount_cents is not a number, not an integer or zero,
\* or whose reason is missing, not a string or empty after trimming, is
\* answered with a client error without a transaction being opened: no
\* balance, credit_transactions row or audit-log row changes.
C8_InvalidRequestRejected ==
    [][\A r \in Reqs :
         ( /\ pc[r] = "received" /\ pc'[r] # "received"
           /\ C8_BadAmount(http[r].amount_cents) \/ C8_BadReason(http[r].reason) )
         => /\ pc'[r] = "done"
            /\ res'[r].status \in {400, 401}
            /\ txn'[r] = NoWrites
            /\ UNCHANGED <<db, rowLock, applied>>
      ]_vars

\* C8's case: a request with a reason of white space only was rejected.
C8_Witness ==
    \E r \in Reqs :
        /\ pc[r] = "done" /\ res[r].status = 400
        /\ res[r].error = "Reason for credit adjustment is required and cannot be empty."
        /\ local[r] = NoLocals /\ r \notin applied

\* C9: when the SELECT on user_credits found no row, an existing target is
\* adjusted from a current balance of 0 (a positive amount goes on and its
\* COMMIT leaves a row whose balance is that amount, a negative amount is
\* rejected for negative balance), and a target that is not a user is
\* answered 404 with nothing written.
C9_MissingCreditRow ==
    [][\A r \in Reqs :
         LET t == local[r].targetUserId
             amount == local[r].amount_cents
         IN  /\ (pc[r] = "userCheck" /\ pc'[r] \in {"upsert1", "done"} /\ t \in users)
                => /\ local'[r].currentBalanceCents = 0
                   /\ amount > 0 => pc'[r] = "upsert1"
                   /\ amount < 0 => /\ pc'[r] = "done"
                                    /\ res'[r].status = 400
                                    /\ res'[r].current_balance_cents = 0
             /\ (pc[r] = "userCheck" /\ pc'[r] \in {"upsert1", "done"} /\ t \notin users)
                => /\ pc'[r] = "done"
                   /\ res'[r].status = 404
                   /\ txn'[r] = NoWrites
                   /\ UNCHANGED <<db, applied>>
             /\ (pc[r] = "commit" /\ pc'[r] = "done" /\ local[r].rows = <<>>)
                => user_credits'[t] = <<amount>>
      ]_vars

\* C9's case: user 2, who had no credit row, was credited 50 cents and has a
\* row with balance 50, and an adjustment of user 3, who does not exist, was
\* answered 404.
C9_Witness ==
    \E r, s \in Reqs :
        /\ Succeeded(r) /\ local[r].targetUserId = 2 /\ local[r].rows = <<>>
        /\ res[r].previous_balance_cents = 0
        /\ user_credits[2] = <<50>>
        /\ pc[s] = "done" /\ res[s].status = 404 /\ local[s].targetUserId = 3
        /\ user_credits[3] = <<>>

\* the requests whose handler opened a transaction
Adjustments == {r \in Reqs : local[r].targetUserId # 0}

\* what an adjustment of user t by amount answers when it runs on the
\* initial database with no other adjustment of t before or beside it
AloneResponse(t, amount) ==
    LET current == IF InitCredits[t] = <<>> THEN 0 ELSE InitCredits[t][1] IN
    IF t \notin InitUsers THEN [status |-> 404, error |-> "Target user not found."]
    ELSE IF current + amount < 0
    THEN [status |-> 400, error |-> "Adjustment would result in a negative balance.",
          current_balance_cents |-> current]
    ELSE [status |-> 200, user_id |-> t, previous_balance_cents |-> current,
          adjusted_amount_cents |-> amount, new_balance_cents |-> current + amount]

\* C10, frame: a step of an adjustment of user u changes neither the balance
\* nor the credit_transactions rows of any other user.
C10_Frame ==
    \A r \in Reqs :
        pc'[r] # pc[r] =>
            \A v \in UserIds \ {local'[r].targetUserId} :
                /\ user_credits'[v] = user_credits[v]
                /\ RowsOf(credit_transactions', v) = RowsOf(credit_transactions, v)

\* C10, outcome: when adjustments of pairwise different users have all
\* answered, with no statement rejected, each has the response, and each user
\* the balance and the credit_transactions rows, of running it alone.
C10_AsIfAlone ==
    ( /\ \A r \in Reqs : ~InFlight(r) /\ pc[r] # "received"
      /\ faults = 0
      /\ \A r, s \in Adjustments : r # s => local[r].targetUserId # local[s].targetUserId )
    => /\ \A r \in Adjustments :
            LET t == local[r].targetUserId
                expected == AloneResponse(t, local[r].amount_cents)
            IN  /\ res[r] = expected
                /\ user_credits[t] =
                      IF expected.status = 200
                      THEN <<expected.new_balance_cents>> ELSE InitCredits[t]
                /\ RowsOf(credit_transactions, t) =
                      RowsOf(InitTransactions, t)
                      \o (IF expected.status = 200 THEN <<AdjustmentRow(r)>> ELSE <<>>)
       /\ \A u \in UserIds :
            (\A r \in Adjustments : local[r].targetUserId # u)
                => /\ user_credits[u] = InitCredits[u]
                   /\ RowsOf(credit_transactions, u) = RowsOf(InitTransactions, u)

\* C10: adjustments of different users are independent (frame and outcome).
C10_DifferentUsersIndependent == [][C10_Frame]_vars /\ []C10_AsIfAlone

\* C10's case: the transactions of two adjustments of different users are
\* open together, each with its balance write, row and audit entry pending.
C10_Witness ==
    \E r, s \in Reqs :
        /\ pc[r] = "commit" /\ pc[s] = "commit"
        /\ local[r].targetUserId = 1 /\ local[s].targetUserId = 2
        /\ txn[r].row = <<40>> /\ txn[s].row = <<50>>

\* C11: the response of a successful adjustment reports the balances as they
\* were stored: previous_balance_cents is the committed balance of the target
\* immediately before this adjustment's COMMIT made its write visible,
\* new_balance_cents is the balance stored by that COMMIT, and
\* new_balance_cents = previous_balance_cents + adjusted_amount_cents.
C11_ResponseTruthful ==
    [][\A r \in Reqs :
         LET t == local[r].targetUserId
         IN  (pc[r] = "commit" /\ pc'[r] = "done" /\ res'[r].status = 200)
             => /\ res'[r].previous_balance_cents = Balance(t)
                /\ user_credits'[t] = <<res'[r].new_balance_cents>>
                /\ res'[r].new_balance_cents
                     = res'[r].previous_balance_cents + res'[r].adjusted_amount_cents
      ]_vars

\* =============================================================== numbers
\* A JavaScript number of the cost calculator: the rational num/den in lowest
\* terms with den > 0, or NaN (den = 0).  The values met here are decimal
\* fractions of a few digits; arithmetic on them is exact.
NaN == [num |-> 0, den |-> 0]

IsNaN(x) == x.den = 0

Abs(n) == IF n < 0 THEN 0 - n ELSE n

RECURSIVE GCD(_, _)
GCD(a, b) == IF b = 0 THEN a ELSE GCD(b, a % b)

\* the number n/d, d > 0, in lowest terms
Rat(n, d) ==
    LET g == GCD(Abs(n), d)
    IN  [num |-> (IF n < 0 THEN 0 - (Abs(n) \div g) ELSE n \div g), den |-> d \div g]

\* x * y
Mul(x, y) ==
    IF IsNaN(x) \/ IsNaN(y) THEN NaN
    ELSE LET a == Rat(x.num, y.den)
             b == Rat(y.num, x.den)
         IN  Rat(a.num * b.num, a.den * b.den)

\* x + y
Add(x, y) ==
    IF IsNaN(x) \/ IsNaN(y) THEN NaN
    ELSE LET g == GCD(x.den, y.den)
         IN  Rat(x.num * (y.den \div g) + y.num * (x.den \div g),
                 (x.den \div g) * y.den)

\* x / k for an integer k > 0
DivBy(x, k) == Mul(x, Rat(1, k))

\* x >= 0 (false for NaN, as in JavaScript)
NonNegative(x) == ~IsNaN(x) /\ x.num >= 0

\* x < 0 (false for NaN)
Negative(x) == ~IsNaN(x) /\ x.num < 0

Million == 1000000

\* parseFloat(x.toFixed(6)): x rounded to the nearest multiple of 10^-6, a
\* tie going away from zero; NaN formats as "NaN" and parses back to NaN
ToFixed6(x) ==
    IF IsNaN(x) THEN NaN
    ELSE LET g == GCD(Million, x.den)
             a == Abs(x.num) * (Million \div g)
             d == x.den \div g
             n == (a \div d) + (IF 2 * (a % d) >= d THEN 1 ELSE 0)
         IN  Rat(IF x.num < 0 THEN 0 - n ELSE n, Million)

\* the digits of s up to the first character that is not one, as the pair
\* <<value, number of digits>>
RECURSIVE ScanDigits(_, _, _)
ScanDigits(s, acc, count) ==
    IF s # <<>> /\ Head(s) \in Digits
    THEN ScanDigits(Tail(s), 10 * acc + DigitValue(Head(s)), count + 1)
    ELSE <<acc, count>>

RECURSIVE Pow10(_)
Pow10(k) == IF k = 0 THEN 1 ELSE 10 * Pow10(k - 1)

\* parseFloat(s) of a string: leading white space is skipped, then an
\* optional sign, digits and an optional fraction are read and the rest is
\* ignored; NaN when no digit is read
ParseFloat(s) ==
    LET t == TrimStart(s)
        neg == t # <<>> /\ Head(t) = "-"
        u == IF t # <<>> /\ Head(t) \in {"-", "+"} THEN Tail(t) ELSE t
        int == ScanDigits(u, 0, 0)
        afterInt == SubSeq(u, int[2] + 1, Len(u))
        hasDot == afterInt # <<>> /\ Head(afterInt) = "."
        frac == IF hasDot THEN ScanDigits(Tail(afterInt), 0, 0) ELSE <<0, 0>>
        mag == int[1] * Pow10(frac[2]) + frac[1]
    IN  IF int[2] = 0 /\ frac[2] = 0 THEN NaN
        ELSE Rat(IF neg THEN 0 - mag ELSE mag, Pow10(frac[2]))

\* =============================================================== strings
UpperCase ==
    <<"A", "B", "C", "D", "E", "F", "G", "H", "I", "J", "K", "L", "M",
      "N", "O", "P", "Q", "R", "S", "T", "U", "V", "W", "X", "Y", "Z">>

LowerCase ==
    <<"a", "b", "c", "d", "e", "f", "g", "h", "i", "j", "k", "l", "m",
      "n", "o", "p", "q", "r", "s", "t", "u", "v", "w", "x", "y", "z">>

LowerChar(c) ==
    IF \E i \in 1..Len(UpperCase) : UpperCase[i] = c
    THEN LowerCase[CHOOSE i \in 1..Len(UpperCase) : UpperCase[i] = c]
    ELSE c

\* String.prototype.toLowerCase, and LOWER() of PostgreSQL
ToLowerCase(s) == [i \in 1..Len(s) |-> LowerChar(s[i])]

DigitChars == <<"0", "1", "2", "3", "4", "5", "6", "7", "8", "9">>

\* the decimal digits of a natural number
RECURSIVE NatChars(_)
NatChars(n) ==
    IF n < 10 THEN <<DigitChars[n + 1]>>
    ELSE NatChars(n \div 10) \o <<DigitChars[(n % 10) + 1]>>

\* ------------------------------------------- columns of type DECIMAL(10, 2)
\* the value a DECIMAL(10, 2) column stores for the number x: x rounded to
\* two decimals, a tie going away from zero; NaN is stored as NaN
NumericIn(x) ==
    IF IsNaN(x) THEN NaN
    ELSE LET g == GCD(100, x.den)
             a == Abs(x.num) * (100 \div g)
             d == x.den \div g
             n == (a \div d) + (IF 2 * (a % d) >= d THEN 1 ELSE 0)
         IN  Rat(IF x.num < 0 THEN 0 - n ELSE n, 100)

\* the text the driver returns for a DECIMAL(10, 2) column: '1.00', '-0.50',
\* 'NaN'
NumericOut(x) ==
    IF IsNaN(x) THEN <<"N", "a", "N">>
    ELSE LET cents == Abs(x.num) * (100 \div x.den)
         IN  (IF x.num < 0 THEN <<"-">> ELSE <<>>)
               \o NatChars(cents \div 100)
               \o <<".", DigitChars[((cents % 100) \div 10) + 1],
                         DigitChars[(cents % 10) + 1]>>

\* a row of table models (the columns the backend's pricing reads and writes)
ModelRow(id_string, provider, input, output, is_active) ==
    [id_string |-> id_string, provider |-> provider,
     input_cost_per_million_tokens |-> input,
     output_cost_per_million_tokens |-> output, is_active |-> is_active]

\* ===================================================== the cost calculator
\* (backend/dist/utils/costCalculator.js)
gemini == <<"g", "e", "m", "i", "n", "i">>
google == <<"g", "o", "o", "g", "l", "e">>
claude == <<"c", "l", "a", "u", "d", "e">>
anthropic == <<"a", "n", "t", "h", "r", "o", "p", "i", "c">>
openai == <<"o", "p", "e", "n", "a", "i">>
dall_e_3 == <<"d", "a", "l", "l", "-", "e", "-", "3">>

\* SQL NULL in a column of type TEXT
Null == [type |-> "null"]

\* Per 1K tokens
DEFAULT_FALLBACK_RATE == [input |-> Rat(2, 1000), output |-> Rat(2, 1000)]

FALLBACK_NEUROSWITCH_CLASSIFIER_FEE_DOLLARS == Rat(1, 1000)

FALLBACK_PRICING_PRIME_MULTIPLIER == Rat(1, 1)

\* key "provider/model_id_string" -> cost in dollars
FIXED_MODEL_COSTS ==
    {[key |-> openai \o <<"/">> \o dall_e_3, cost |-> Rat(4, 100)],
     [key |-> openai \o <<"/">> \o dall_e_3 \o <<"-", "w", "i", "d", "e">>,
      cost |-> Rat(8, 100)],
     [key |-> openai \o <<"/">> \o dall_e_3 \o <<"-", "t", "a", "l", "l">>,
      cost |-> Rat(8, 100)]}

\* a provider name as the lookups use it, without the synonym mapping
NormalizeProviderNoSynonyms(neuroSwitchProvider) == ToLowerCase(neuroSwitchProvider)

\* dbProvider: the provider lower-cased, 'gemini' as 'google' and 'claude' as
\* 'anthropic'
NormalizeProvider(neuroSwitchProvider) ==
    LET dbProvider == ToLowerCase(neuroSwitchProvider)
    IN  IF dbProvider = gemini THEN google
        ELSE IF dbProvider = claude THEN anthropic
        ELSE dbProvider

\* fixedKey
FixedKey(neuroSwitchProvider, modelId) ==
    NormalizeProvider(neuroSwitchProvider) \o <<"/">> \o ToLowerCase(modelId)

\* no key is a fixed-price key
FixedModelCostNone(key) == <<>>

\* FIXED_MODEL_COSTS[key]: <<cost>>, or <<>> for undefined
FixedModelCost(key) ==
    IF \E e \in FIXED_MODEL_COSTS : e.key = key
    THEN <<(CHOOSE e \in FIXED_MODEL_COSTS : e.key = key).cost>>
    ELSE <<>>

\* fullIdString
FullIdString(neuroSwitchProvider, modelId) ==
    NormalizeProvider(neuroSwitchProvider) \o <<"/">> \o ToLowerCase(modelId)

\* SELECT input_cost_per_million_tokens, output_cost_per_million_tokens
\* FROM models WHERE LOWER(provider) = LOWER($1) AND LOWER(id_string) = LOWER($2):
\* the matching rows, their DECIMAL columns as the driver returns them
SelectModelRates(table, dbProvider, fullIdString) ==
    LET Matches(row) ==
            /\ ToLowerCase(row.provider) = ToLowerCase(dbProvider)
            /\ ToLowerCase(row.id_string) = ToLowerCase(fullIdString)
        found == SelectSeq(table, Matches)
    IN  [i \in 1..Len(found) |->
            [input_cost_per_million_tokens |->
                 NumericOut(found[i].input_cost_per_million_tokens),
             output_cost_per_million_tokens |->
                 NumericOut(found[i].output_cost_per_million_tokens)]]

\* a per-million rate used as if it were the rate per 1K tokens
RatePer1kUndivided(costPerMillion) == ParseFloat(costPerMillion)

\* parseFloat(costPerMillion) / 1000
RatePer1k(costPerMillion) == DivBy(ParseFloat(costPerMillion), 1000)

\* the fallback charged for input tokens only
FallbackBaseCostInputOnly(inputTokens, outputTokens) ==
    Mul(Rat(inputTokens, 1000), DEFAULT_FALLBACK_RATE.input)

\* (inputTokens / 1000) * DEFAULT_FALLBACK_RATE.input
\*   + (outputTokens / 1000) * DEFAULT_FALLBACK_RATE.output
FallbackBaseCost(inputTokens, outputTokens) ==
    Add(Mul(Rat(inputTokens, 1000), DEFAULT_FALLBACK_RATE.input),
        Mul(Rat(outputTokens, 1000), DEFAULT_FALLBACK_RATE.output))

\* baseCost after the models query returned rows
BaseCostOfRows(rows, inputTokens, outputTokens) ==
    IF Len(rows) > 0
    THEN LET inputRatePer1k == RatePer1k(rows[1].input_cost_per_million_tokens)
             outputRatePer1k == RatePer1k(rows[1].output_cost_per_million_tokens)
         IN  IF IsNaN(inputRatePer1k) \/ IsNaN(outputRatePer1k)
             THEN FallbackBaseCost(inputTokens, outputTokens)
             ELSE Add(Mul(Rat(inputTokens, 1000), inputRatePer1k),
                      Mul(Rat(outputTokens, 1000), outputRatePer1k))
    ELSE FallbackBaseCost(inputTokens, outputTokens)

\* parseFloat(value) of an app_config value: a string is parsed, null reads
\* as the string 'null'
ParseFloatOfValue(value) ==
    IF value.type = "string" THEN ParseFloat(value.str) ELSE NaN

\* a multiplier that takes every parseable percentage, negative ones too
PrimeMultiplierOfRowsAnySign(rows) ==
    IF Len(rows) > 0 /\ ~IsNaN(ParseFloatOfValue(rows[1]))
    THEN Add(Rat(1, 1), DivBy(ParseFloatOfValue(rows[1]), 100))
    ELSE FALLBACK_PRICING_PRIME_MULTIPLIER

\* primeMultiplier after the app_config query returned rows
PrimeMultiplierOfRows(rows) ==
    IF Len(rows) > 0
    THEN LET primePercentage == ParseFloatOfValue(rows[1])
         IN  IF ~IsNaN(primePercentage) /\ NonNegative(primePercentage)
             THEN Add(Rat(1, 1), DivBy(primePercentage, 100))
             ELSE FALLBACK_PRICING_PRIME_MULTIPLIER
    ELSE FALLBACK_PRICING_PRIME_MULTIPLIER

\* the fee in cents returned as if it were dollars
ClassifierFeeOfRowsCents(rows) ==
    IF Len(rows) > 0 /\ NonNegative(ParseFloatOfValue(rows[1]))
    THEN ParseFloatOfValue(rows[1])
    ELSE FALLBACK_NEUROSWITCH_CLASSIFIER_FEE_DOLLARS

\* the fee after the app_config query returned rows
ClassifierFeeOfRows(rows) ==
    IF Len(rows) > 0
    THEN LET feeCents == ParseFloatOfValue(rows[1])
         IN  IF ~IsNaN(feeCents) /\ NonNegative(feeCents)
             THEN DivBy(feeCents, 100)
             ELSE FALLBACK_NEUROSWITCH_CLASSIFIER_FEE_DOLLARS
    ELSE FALLBACK_NEUROSWITCH_CLASSIFIER_FEE_DOLLARS

\* no await of the calculator is inside a try block
InTryNever(at) == FALSE

\* the awaits of the calculator that are inside a try block
InTry(at) == at \in {"models", "fixedPrime", "prime", "fee"}

\* ============================================= the admin routes of models
\* (PUT /api/admin/models/:modelId and POST /api/admin/models/sync)

\* the index of the first '/' of s, or Len(s) + 1 when there is none
SlashAt(s) ==
    IF \E i \in 1..Len(s) : s[i] = "/"
    THEN CHOOSE i \in 1..Len(s) : s[i] = "/" /\ \A j \in 1..(i - 1) : s[j] # "/"
    ELSE Len(s) + 1

\* const [provider] = id.split('/')
ProviderPrefix(id) == SubSeq(id, 1, SlashAt(id) - 1)

\* rawIdParts.join('/'): what follows the first '/'
RawId(id) == SubSeq(id, SlashAt(id) + 1, Len(id))

\* rawId.includes(sub)
Includes(s, sub) ==
    \E i \in 1..(Len(s) - Len(sub) + 1) : SubSeq(s, i, i + Len(sub) - 1) = sub

\* rawId.replace(/\./g, '-')
ReplaceDots(s) == [i \in 1..Len(s) |-> IF s[i] = "." THEN "-" ELSE s[i]]

\* the length of the longest prefix of s that matches \d+\.?\d*
VersionLength(s) ==
    LET whole == ScanDigits(s, 0, 0)[2]
        rest == SubSeq(s, whole + 1, Len(s))
    IN  IF rest # <<>> /\ Head(rest) = "."
        THEN whole + 1 + ScanDigits(Tail(rest), 0, 0)[2]
        ELSE whole

\* s.replace(/gemini-WORD-(\d+\.?\d*)/g, 'gemini-$1-WORD')
RECURSIVE ReorderVersion(_, _)
ReorderVersion(s, word) ==
    LET prefix == gemini \o <<"-">> \o word \o <<"-">>
        n == Len(prefix)
    IN  IF s = <<>> THEN <<>>
        ELSE IF Len(s) > n /\ SubSeq(s, 1, n) = prefix /\ s[n + 1] \in Digits
        THEN LET rest == SubSeq(s, n + 1, Len(s))
                 v == VersionLength(rest)
             IN  gemini \o <<"-">> \o SubSeq(rest, 1, v) \o <<"-">> \o word
                   \o ReorderVersion(SubSeq(rest, v + 1, Len(rest)), word)
        ELSE <<Head(s)>> \o ReorderVersion(Tail(s), word)

flash == <<"f", "l", "a", "s", "h">>
pro == <<"p", "r", "o">>

normalizeIdString(originalId) ==
    LET provider == ProviderPrefix(originalId)
        rawId == RawId(originalId)
    IN  IF provider = anthropic THEN provider \o <<"/">> \o ReplaceDots(rawId)
        ELSE IF provider = google /\ Includes(rawId, gemini)
        THEN provider \o <<"/">> \o ReorderVersion(ReorderVersion(rawId, flash), pro)
        ELSE originalId

\* provider prefix of the cache -> provider column; <<>> for an unknown one
PROVIDER_MAPPING(prefix) ==
    IF prefix = openai THEN <<<<"O", "p", "e", "n", "A", "I">>>>
    ELSE IF prefix = anthropic
    THEN <<<<"A", "n", "t", "h", "r", "o", "p", "i", "c">>>>
    ELSE IF prefix = google THEN <<<<"G", "o", "o", "g", "l", "e">>>>
    ELSE <<>>

TARGET_PROVIDERS == {openai, anthropic, google}

\* price per token -> price per million tokens
convertPricing(pricePerToken) ==
    LET price == ParseFloat(pricePerToken)
    IN  IF IsNaN(price) THEN Rat(0, 1) ELSE Mul(price, Rat(Million, 1))

\* an upsert that writes is_active as the schema default on every path
upsertModelResetsActive(table, model) ==
    LET provider == PROVIDER_MAPPING(ProviderPrefix(model.id))
        normalizedId == normalizeIdString(model.id)
        inputCost == NumericIn(convertPricing(model.pricing.prompt))
        outputCost == NumericIn(convertPricing(model.pricing.completion))
        existing == {i \in 1..Len(table) : table[i].id_string = normalizedId}
    IN  IF provider = <<>> THEN table
        ELSE IF existing # {}
        THEN [i \in 1..Len(table) |->
                 IF i \in existing
                 THEN ModelRow(normalizedId, provider[1], inputCost, outputCost, FALSE)
                 ELSE table[i]]
        ELSE Append(table, ModelRow(normalizedId, provider[1], inputCost,
                                    outputCost, FALSE))

\* upsertModel: the row with id_string = normalizedId gets the cache's
\* provider and prices and keeps is_active; without such a row one is
\* inserted, inactive
upsertModel(table, model) ==
    LET provider == PROVIDER_MAPPING(ProviderPrefix(model.id))
        normalizedId == normalizeIdString(model.id)
        inputCost == NumericIn(convertPricing(model.pricing.prompt))
        outputCost == NumericIn(convertPricing(model.pricing.completion))
        existing == {i \in 1..Len(table) : table[i].id_string = normalizedId}
    IN  IF provider = <<>> THEN table
        ELSE IF existing # {}
        THEN [i \in 1..Len(table) |->
                 IF i \in existing
                 THEN ModelRow(normalizedId, provider[1], inputCost, outputCost,
                               table[i].is_active)
                 ELSE table[i]]
        ELSE Append(table, ModelRow(normalizedId, provider[1], inputCost,
                                    outputCost, FALSE))

\* for (const model of targetModels) await upsertModel(model, stats, client)
RECURSIVE UpsertAll(_, _)
UpsertAll(table, targetModels) ==
    IF targetModels = <<>> THEN table
    ELSE UpsertAll(upsertModel(table, Head(targetModels)), Tail(targetModels))

Bool(b) == [type |-> "boolean", bool |-> b]

\* PUT /:modelId with its transaction run to the end: the status answered
\* and table models as the COMMIT (or ROLLBACK) leaves it
PutModel(table, q) ==
    LET targetModelId == ParseInt(q.modelId)
        inputCost == ParseFloat(q.input_cost_per_million_tokens)
        outputCost == ParseFloat(q.output_cost_per_million_tokens)
        Answer(status) == [status |-> status, models |-> table]
    IN  IF Unauthorized(q.user) THEN Answer(401)
        ELSE IF targetModelId = <<>> THEN Answer(400)
        ELSE IF \/ IsNaN(inputCost) \/ Negative(inputCost)
                \/ IsNaN(outputCost) \/ Negative(outputCost)
        THEN Answer(400)
        ELSE IF Typeof(q.is_active) # "boolean" THEN Answer(400)
        ELSE IF targetModelId[1] \notin 1..Len(table) THEN Answer(404)
        ELSE LET currentModel == table[targetModelId[1]]
                 oldInputCost ==
                     ParseFloat(NumericOut(currentModel.input_cost_per_million_tokens))
                 oldOutputCost ==
                     ParseFloat(NumericOut(currentModel.output_cost_per_million_tokens))
             IN  IF /\ ~IsNaN(oldInputCost) /\ oldInputCost = inputCost
                    /\ ~IsNaN(oldOutputCost) /\ oldOutputCost = outputCost
                    /\ currentModel.is_active = q.is_active.bool
                 THEN Answer(200)
                 ELSE [status |-> 200,
                       models |->
                           [table EXCEPT ![targetModelId[1]] =
                               ModelRow(currentModel.id_string, currentModel.provider,
                                        NumericIn(inputCost), NumericIn(outputCost),
                                        q.is_active.bool)]]

\* POST /sync with its transaction run to the end
SyncModels(table, q) ==
    LET Answer(status) == [status |-> status, models |-> table]
    IN  IF Falsy(q.user) \/ Falsy(q.user.id) THEN Answer(401)
        ELSE IF ~(Typeof(q.action) = "string" /\ q.action.str = <<"s", "y", "n", "c">>)
        THEN Answer(400)
        ELSE IF q.cache.file # "ok" THEN Answer(400)
        ELSE LET targetModels ==
                     SelectSeq(q.cache.data,
                               LAMBDA model : ProviderPrefix(model.id) \in TARGET_PROVIDERS)
             IN  [status |-> 200, models |-> UpsertAll(table, targetModels)]

\* ------------------------------------------- the cost specification: inputs
gemini_1_5_flash ==
    gemini \o <<"-", "1", ".", "5", "-">> \o flash

Gemini_1_5_Flash ==
    <<"G">> \o Tail(gemini) \o <<"-", "1", ".", "5", "-", "F">> \o Tail(flash)

\* provider names a caller passes
Providers ==
    {gemini, <<"G">> \o Tail(gemini), google, claude, anthropic, openai,
     <<"O", "p", "e", "n", "A", "I">>}

\* model ids a caller passes: absent, empty, a stored model in two
\* spellings, a fixed-price model in two spellings, an unknown model
ModelIdStrings ==
    {Undefined, Str(<<>>), Str(gemini_1_5_flash), Str(Gemini_1_5_Flash),
     Str(dall_e_3), Str(<<"D", "A", "L", "L", "-", "E", "-", "3">>),
     Str(<<"u", "n", "k", "n", "o", "w", "n">>)}

\* <<inputTokens, outputTokens>>
TokenCounts == {<<1000, 500>>, <<0, 0>>, <<1, 1>>}

\* table models as a deployment can hold it before the admin routes run:
\* empty; the model of the scenario and a fixed-price model, both at $1.00
\* and $2.00 per million tokens;
\* the same model with its id_string in mixed case and a rate that is NaN
InitModelTables ==
    {<<>>,
     <<ModelRow(google \o <<"/">> \o gemini_1_5_flash,
                <<"G">> \o Tail(google), Rat(1, 1), Rat(2, 1), TRUE),
       ModelRow(openai \o <<"/">> \o dall_e_3, openai, Rat(1, 1), Rat(2, 1), TRUE)>>,
     <<ModelRow(google \o <<"/">> \o Gemini_1_5_Flash, google, NaN, Rat(2, 1), TRUE)>>}

ConfigOf(prime, fee) ==
    [k \in ConfigKeys |-> IF k = "pricing_prime_percentage" THEN prime ELSE fee]

\* app_config as a deployment can hold it: the seed, no rows, negative
\* values, text that is no number, fractions, NULL values, zeros
InitConfigs ==
    {SeedConfig,
     ConfigOf(<<>>, <<>>),
     ConfigOf(<<Str(<<"-", "5">>)>>, <<Str(<<"-", "1">>)>>),
     ConfigOf(<<Str(<<"a", "b", "c">>)>>, <<Str(<<"x">>)>>),
     ConfigOf(<<Str(<<"1", "2", ".", "5">>)>>, <<Str(<<"0", ".", "5">>)>>),
     ConfigOf(<<Null>>, <<Null>>),
     ConfigOf(<<Str(<<"0">>)>>, <<Str(<<"0">>)>>)}

PutRequest(user, modelId, input, output, is_active) ==
    [user |-> user, modelId |-> modelId, input_cost_per_million_tokens |-> input,
     output_cost_per_million_tokens |-> output, is_active |-> is_active]

\* PUT /:modelId requests: rows 1 and 9 and a malformed id; costs 2.5, -1
\* and 'abc'; is_active true, false and absent
PutRequests ==
    {PutRequest(Admin, modelId, input, <<"0">>, is_active) :
        modelId \in {<<"1">>, <<"9">>, <<"x">>},
        input \in {<<"2", ".", "5">>, <<"-", "1">>, <<"a", "b", "c">>},
        is_active \in {Bool(TRUE), Bool(FALSE), Undefined}}
    \cup {PutRequest(Undefined, <<"1">>, <<"2", ".", "5">>, <<"0">>, Bool(TRUE))}

CacheModel(id, prompt, completion) ==
    [id |-> id, pricing |-> [prompt |-> prompt, completion |-> completion]]

\* entries of openrouter-models.json: the scenario's model under the cache's
\* name at $1.00 or -$1.00 per million input tokens and $2.00 or an
\* unparseable price per output token, and a model of a provider that is
\* not imported
CacheModels ==
    {CacheModel(google \o <<"/">> \o gemini \o <<"-">> \o flash \o <<"-", "1", ".", "5">>,
                prompt, completion) :
        prompt \in {<<"0", ".", "0", "0", "0", "0", "0", "1">>,
                    <<"-", "0", ".", "0", "0", "0", "0", "0", "1">>},
        completion \in {<<"0", ".", "0", "0", "0", "0", "0", "2">>,
                        <<"f", "r", "e", "e">>}}
    \cup {CacheModel(<<"m", "i", "s", "t", "r", "a", "l", "/", "7", "b">>,
                     <<"0">>, <<"0">>)}

SyncRequest(user, action, cache) == [user |-> user, action |-> action, cache |-> cache]

\* POST /sync requests: a cache file with one model, no file, a file that
\* does not parse, a wrong action, no authenticated user
SyncRequests ==
    {SyncRequest(Admin, Str(<<"s", "y", "n", "c">>), [file |-> "ok", data |-> <<model>>]) :
        model \in CacheModels}
    \cup {SyncRequest(Admin, Str(<<"s", "y", "n", "c">>), [file |-> f, data |-> <<>>]) :
            f \in {"missing", "corrupt"}}
    \cup {SyncRequest(Admin, Undefined, [file |-> "ok", data |-> <<>>]),
          SyncRequest(Undefined, Str(<<"s", "y", "n", "c">>), [file |-> "ok", data |-> <<>>])}

\* ------------------------------------ the cost specification: init, actions
\* The credit and role handlers are at rest; the pricing tables are any a
\* deployment can hold.
InitCost ==
    /\ users = InitUsers
    /\ user_credits = InitCredits
    /\ credit_transactions = InitTransactions
    /\ admin_actions_logs = <<>>
    /\ rowLock = [u \in UserIds |-> 0]
    /\ nreq = 0
    /\ http = [r \in Reqs |-> NoRequest]
    /\ pc = [r \in Reqs |-> "idle"]
    /\ local = [r \in Reqs |-> NoLocals]
    /\ txn = [r \in Reqs |-> NoWrites]
    /\ res = [r \in Reqs |-> NoResponse]
    /\ faults = 0
    /\ overlapped = [r \in Reqs |-> FALSE]
    /\ applied = {}
    /\ roles = InitRoles
    /\ roleReq = [r \in Reqs |-> NoRoleRequest]
    /\ models \in InitModelTables
    /\ app_config \in InitConfigs
    /\ call = NoCall
    /\ AdminIdle

\* calculateLlmProviderCost is called; its code up to the first await
CallCost(neuroSwitchProvider, modelIdString, inputTokens, outputTokens) ==
    /\ call.pc = "idle"
    /\ LET args == [NoCall EXCEPT !.fn = "calculateLlmProviderCost",
                                  !.neuroSwitchProvider = neuroSwitchProvider,
                                  !.modelIdString = modelIdString,
                                  !.inputTokens = inputTokens,
                                  !.outputTokens = outputTokens]
           fixedCost == FixedModelCost(FixedKey(neuroSwitchProvider, modelIdString.str))
       IN  call' =
             IF ~Falsy(modelIdString) /\ fixedCost # <<>>
             THEN [args EXCEPT !.pc = "fixedPrime", !.baseCost = fixedCost[1]]
             ELSE IF Falsy(modelIdString)
             THEN [args EXCEPT !.pc = "prime",
                               !.baseCost = FallbackBaseCost(inputTokens, outputTokens)]
             ELSE [args EXCEPT !.pc = "models"]
    /\ UNCHANGED <<models, app_config, creditVars, roleVars, adminVars>>

\* a read of the calculator fails: inside a try block the catch continues
\* with what it sets, outside the error leaves the function
ReadFails(at, caught) ==
    /\ call.pc = at
    /\ call' = IF InTry(at) THEN [caught EXCEPT !.failed = call.failed \cup {at}]
                            ELSE [call EXCEPT !.pc = "thrown"]
    /\ UNCHANGED <<models, app_config, creditVars, roleVars, adminVars>>

\* await db.query('SELECT ... FROM models WHERE ...') returns
QueryModels ==
    /\ call.pc = "models"
    /\ LET found == SelectModelRates(models, NormalizeProvider(call.neuroSwitchProvider),
                                     FullIdString(call.neuroSwitchProvider,
                                                  call.modelIdString.str))
       IN  \E rows \in IF found = <<>> THEN {<<>>}
                       ELSE {<<found[i]>> : i \in 1..Len(found)} :
               call' = [call EXCEPT !.pc = "prime",
                                    !.baseCost = BaseCostOfRows(rows, call.inputTokens,
                                                                call.outputTokens)]
    /\ UNCHANGED <<models, app_config, creditVars, roleVars, adminVars>>

QueryModelsFails ==
    ReadFails("models",
              [call EXCEPT !.pc = "prime",
                           !.baseCost = FallbackBaseCost(call.inputTokens,
                                                         call.outputTokens)])

\* return parseFloat((baseCost * primeMultiplier).toFixed(6))
Returned(primeMultiplier) ==
    [call EXCEPT !.pc = "returned",
                 !.primeMultiplier = primeMultiplier,
                 !.ret = ToFixed6(Mul(call.baseCost, primeMultiplier))]

\* await db.query("SELECT value FROM app_config WHERE key =
\* 'pricing_prime_percentage'") returns, on either path
QueryPrime ==
    /\ call.pc \in {"fixedPrime", "prime"}
    /\ call' = Returned(PrimeMultiplierOfRows(app_config["pricing_prime_percentage"]))
    /\ UNCHANGED <<models, app_config, creditVars, roleVars, adminVars>>

QueryPrimeFails ==
    \E at \in {"fixedPrime", "prime"} :
        ReadFails(at, Returned(FALLBACK_PRICING_PRIME_MULTIPLIER))

\* getNeuroSwitchClassifierFee is called
CallFee ==
    /\ call.pc = "idle"
    /\ call' = [NoCall EXCEPT !.fn = "getNeuroSwitchClassifierFee", !.pc = "fee"]
    /\ UNCHANGED <<models, app_config, creditVars, roleVars, adminVars>>

QueryFee ==
    /\ call.pc = "fee"
    /\ call' = [call EXCEPT !.pc = "returned",
                            !.ret = ClassifierFeeOfRows(
                                        app_config["neuroswitch_classifier_fee_cents"])]
    /\ UNCHANGED <<models, app_config, creditVars, roleVars, adminVars>>

QueryFeeFails ==
    ReadFails("fee", [call EXCEPT !.pc = "returned",
                                  !.ret = FALLBACK_NEUROSWITCH_CLASSIFIER_FEE_DOLLARS])

\* the caller has the result
CallEnds ==
    /\ call.pc \in {"returned", "thrown"}
    /\ call' = NoCall
    /\ UNCHANGED <<models, app_config, creditVars, roleVars, adminVars>>

NextCost ==
    \/ \E neuroSwitchProvider \in Providers, modelIdString \in ModelIdStrings,
         tokens \in TokenCounts :
           CallCost(neuroSwitchProvider, modelIdString, tokens[1], tokens[2])
    \/ QueryModels
    \/ QueryModelsFails
    \/ QueryPrime
    \/ QueryPrimeFails
    \/ CallFee
    \/ QueryFee
    \/ QueryFeeFails
    \/ CallEnds

\* calls of the calculator against pricing tables that do not change
SpecCost == InitCost /\ [][NextCost]_vars

\* calculateLlmProviderCost as a function of its arguments, the tables and
\* the reads that fail: the values it can return (one value, unless several
\* rows match and the unordered query may put any of them first)
CostsFor(neuroSwitchProvider, modelIdString, inputTokens, outputTokens, failed) ==
    LET fixedCost == FixedModelCost(FixedKey(neuroSwitchProvider, modelIdString.str))
        fallback == FallbackBaseCost(inputTokens, outputTokens)
        found == SelectModelRates(models, NormalizeProvider(neuroSwitchProvider),
                                  FullIdString(neuroSwitchProvider, modelIdString.str))
        bases ==
            IF ~Falsy(modelIdString) /\ fixedCost # <<>> THEN {fixedCost[1]}
            ELSE IF Falsy(modelIdString) \/ "models" \in failed \/ found = <<>>
            THEN {fallback}
            ELSE {BaseCostOfRows(<<found[i]>>, inputTokens, outputTokens) :
                      i \in 1..Len(found)}
        primeMultiplier ==
            IF failed \cap {"fixedPrime", "prime"} # {}
            THEN FALLBACK_PRICING_PRIME_MULTIPLIER
            ELSE PrimeMultiplierOfRows(app_config["pricing_prime_percentage"])
    IN  {ToFixed6(Mul(baseCost, primeMultiplier)) : baseCost \in bases}

\* ============================================ claims on the cost calculator
\* a call of calculateLlmProviderCost has returned
CostReturned == call.fn = "calculateLlmProviderCost" /\ call.pc = "returned"

\* the provider as the tables name it: lower case, gemini under google and
\* claude under anthropic
Canonical(provider) ==
    LET l == ToLowerCase(provider)
    IN  CASE l = gemini -> google
          [] l = claude -> anthropic
          [] OTHER -> l

\* the call names a model of the fixed-price table
OnFixedPrice ==
    /\ ~Falsy(call.modelIdString)
    /\ \E e \in FIXED_MODEL_COSTS :
           e.key = Canonical(call.neuroSwitchProvider) \o <<"/">>
                     \o ToLowerCase(call.modelIdString.str)

\* the rows of models that match the call's (provider, provider/modelId)
\* without regard to letter case
MatchingRows ==
    IF Falsy(call.modelIdString) THEN {}
    ELSE {i \in 1..Len(models) :
            /\ ToLowerCase(models[i].provider) = Canonical(call.neuroSwitchProvider)
            /\ ToLowerCase(models[i].id_string)
                 = Canonical(call.neuroSwitchProvider) \o <<"/">>
                     \o ToLowerCase(call.modelIdString.str)}

\* round-to-6-decimals of base * multiplier
Rounded(base, multiplier) == ToFixed6(Mul(base, multiplier))

\* ((inputTokens/1000) * (inputCostPerMillion/1000)
\*   + (outputTokens/1000) * (outputCostPerMillion/1000))
TokenCost(inputCostPerMillion, outputCostPerMillion) ==
    Add(Mul(Rat(call.inputTokens, 1000), Mul(inputCostPerMillion, Rat(1, 1000))),
        Mul(Rat(call.outputTokens, 1000), Mul(outputCostPerMillion, Rat(1, 1000))))

\* C12: on the token-priced path, when the models query returns a row that
\* matches (provider, provider/modelId) case-insensitively and both of its
\* rates are numeric, the call returns, rounded to 6 decimals,
\* ((inputTokens/1000)*(inputCostPerMillion/1000)
\*   + (outputTokens/1000)*(outputCostPerMillion/1000)) * the prime multiplier.
C12_TokenPricedCost ==
    ( /\ CostReturned /\ ~OnFixedPrice /\ "models" \notin call.failed
      /\ MatchingRows # {}
      /\ \A i \in MatchingRows : /\ ~IsNaN(models[i].input_cost_per_million_tokens)
                                 /\ ~IsNaN(models[i].output_cost_per_million_tokens) )
    => \E i \in MatchingRows :
         call.ret = Rounded(TokenCost(models[i].input_cost_per_million_tokens,
                                      models[i].output_cost_per_million_tokens),
                            call.primeMultiplier)

\* C12's case: 1000 input and 500 output tokens of gemini-1.5-flash, stored at
\* $1.00 and $2.00 per million tokens, cost 0.0024 under a prime of 20%.
C12_Witness ==
    /\ CostReturned
    /\ call.neuroSwitchProvider = gemini
    /\ call.modelIdString = Str(gemini_1_5_flash)
    /\ call.inputTokens = 1000 /\ call.outputTokens = 500
    /\ MatchingRows = {1}
    /\ models[1].input_cost_per_million_tokens = Rat(1, 1)
    /\ models[1].output_cost_per_million_tokens = Rat(2, 1)
    /\ call.primeMultiplier = Rat(120, 100)
    /\ call.ret = Rat(24, 10000)

\* the lookup of the call yields no usable rate
NoUsableRate ==
    \/ Falsy(call.modelIdString)
    \/ MatchingRows = {}
    \/ \E i \in MatchingRows : \/ IsNaN(models[i].input_cost_per_million_tokens)
                              \/ IsNaN(models[i].output_cost_per_million_tokens)
    \/ "models" \in call.failed

\* C13: on the token-priced path, when the model id is absent, no row
\* matches, a stored rate is not numeric or the models query fails, the call
\* returns ((inputTokens/1000)*0.002 + (outputTokens/1000)*0.002) times the
\* prime multiplier, rounded to 6 decimals.
C13_FallbackPricing ==
    (CostReturned /\ ~OnFixedPrice /\ NoUsableRate)
    => call.ret = Rounded(Add(Mul(Rat(call.inputTokens, 1000), Rat(2, 1000)),
                              Mul(Rat(call.outputTokens, 1000), Rat(2, 1000))),
                          call.primeMultiplier)

\* C13's case: 1000 input and 500 output tokens of (openai, unknown), which
\* has no row, cost 0.003 * 1.2 = 0.0036.
C13_Witness ==
    /\ CostReturned
    /\ call.neuroSwitchProvider = openai
    /\ ~Falsy(call.modelIdString) /\ MatchingRows = {} /\ ~OnFixedPrice
    /\ call.failed = {}
    /\ call.inputTokens = 1000 /\ call.outputTokens = 500
    /\ call.primeMultiplier = Rat(120, 100)
    /\ call.ret = Rat(36, 10000)

\* C14: when the normalized key provider/modelId is in the fixed-price table,
\* the call returns the fixed per-call cost times the prime multiplier, for
\* every token count and whatever table models holds.
C14_FixedPriceOverride ==
    \A e \in FIXED_MODEL_COSTS :
        ( /\ CostReturned
          /\ ~Falsy(call.modelIdString)
          /\ e.key = Canonical(call.neuroSwitchProvider) \o <<"/">>
                       \o ToLowerCase(call.modelIdString.str) )
        => call.ret = Rounded(e.cost, call.primeMultiplier)

\* C14's case: openai/dall-e-3 with 1000 and 500 tokens costs 0.048 under a
\* prime of 20% although models holds a row for it at $1.00 and $2.00.
C14_Witness ==
    /\ CostReturned
    /\ call.neuroSwitchProvider = openai
    /\ call.modelIdString = Str(dall_e_3)
    /\ call.inputTokens = 1000 /\ call.outputTokens = 500
    /\ MatchingRows = {2}
    /\ call.primeMultiplier = Rat(120, 100)
    /\ call.ret = Rat(48, 1000)

\* C15: calculateLlmProviderCost never raises: for every provider name, model
\* id (present or absent), token counts and outcome of its two reads it
\* returns a number.
C15_NeverRaises ==
    call.fn = "calculateLlmProviderCost"
    => /\ call.pc # "thrown"
       /\ call.pc = "returned" => call.ret.den >= 0

\* C15's case: a call returned although both of its reads failed.
C15_Witness ==
    /\ CostReturned
    /\ call.failed = {"models", "prime"}
    /\ call.ret = Rat(3, 1000)

\* the percentage a value of app_config denotes, <<>> when it is no number
PercentageOf(rows) ==
    IF rows = <<>> THEN <<>>
    ELSE IF rows[1].type # "string" THEN <<>>
    ELSE CASE rows[1].str = <<"2", "0">> -> <<Rat(20, 1)>>
           [] rows[1].str = <<"1", "2", ".", "5">> -> <<Rat(25, 2)>>
           [] rows[1].str = <<"0", ".", "5">> -> <<Rat(1, 2)>>
           [] rows[1].str = <<"1">> -> <<Rat(1, 1)>>
           [] rows[1].str = <<"0">> -> <<Rat(0, 1)>>
           [] rows[1].str = <<"-", "5">> -> <<Rat(0 - 5, 1)>>
           [] rows[1].str = <<"-", "1">> -> <<Rat(0 - 1, 1)>>
           [] OTHER -> <<>>

\* C16: on the fixed-price path and on the token-priced path alike, the
\* multiplier applied is 1 + percentage/100 when the read of
\* pricing_prime_percentage succeeds with a number >= 0, and exactly 1 when
\* the key is missing, the value is no number or negative, or the read fails.
C16_PrimeMultiplier ==
    CostReturned
    => LET percentage == PercentageOf(app_config["pricing_prime_percentage"])
           readFailed == call.failed \cap {"fixedPrime", "prime"} # {}
       IN  call.primeMultiplier =
             IF ~readFailed /\ percentage # <<>> /\ percentage[1].num >= 0
             THEN Add(Rat(1, 1), Mul(percentage[1], Rat(1, 100)))
             ELSE Rat(1, 1)

\* C16's case: with a stored percentage of -5 a fixed-price call applied no
\* markup and returned 0.04.
C16_Witness ==
    /\ CostReturned /\ OnFixedPrice
    /\ app_config["pricing_prime_percentage"] = <<Str(<<"-", "5">>)>>
    /\ call.failed = {}
    /\ call.primeMultiplier = Rat(1, 1)
    /\ call.ret = Rat(4, 100)

\* two model ids that differ in letter case at most
SameModelId(m1, m2) ==
    /\ m1.type = m2.type
    /\ m1.type = "string" => ToLowerCase(m1.str) = ToLowerCase(m2.str)

\* C17: the cost does not depend on the letter case of provider or modelId,
\* and gemini costs what google costs and claude what anthropic costs: the
\* result of a call is the result, in the same stored state and with the same
\* reads failing, of every call that names the same provider and model in
\* another spelling.
C17_ProviderNormalization ==
    CostReturned
    => \A provider \in Providers, modelIdString \in ModelIdStrings :
         ( /\ Canonical(provider) = Canonical(call.neuroSwitchProvider)
           /\ SameModelId(modelIdString, call.modelIdString) )
         => CostsFor(provider, modelIdString, call.inputTokens, call.outputTokens,
                     call.failed) = {call.ret}

\* C17's case: (gemini, Gemini-1.5-Flash) returned 0.0024, the price of the
\* row stored for google/gemini-1.5-flash.
C17_Witness ==
    /\ CostReturned
    /\ call.neuroSwitchProvider = gemini
    /\ call.modelIdString = Str(Gemini_1_5_Flash)
    /\ call.ret = Rat(24, 10000)
    /\ CostsFor(<<"G">> \o Tail(google), Str(gemini_1_5_flash), call.inputTokens,
                call.outputTokens, call.failed) = {Rat(24, 10000)}

UpdateModel(q) ==
    /\ models' = PutModel(models, q).models
    /\ UNCHANGED <<app_config, call, creditVars, roleVars, adminVars>>

\* POST /sync runs to its COMMIT or ROLLBACK
SyncFromCache(q) ==
    /\ models' = SyncModels(models, q).models
    /\ UNCHANGED <<app_config, call, creditVars, roleVars, adminVars>>

\* Table models starts empty or with rows whose rates are not negative, and
\* from then on only the admin routes write it.
InitPricing ==
    /\ InitCost
    /\ \A i \in 1..Len(models) :
           /\ NonNegative(models[i].input_cost_per_million_tokens)
           /\ NonNegative(models[i].output_cost_per_million_tokens)

NextPricing ==
    \/ \E q \in PutRequests : UpdateModel(q)
    \/ \E q \in SyncRequests : SyncFromCache(q)
    \/ \E neuroSwitchProvider \in {gemini, openai},
         modelIdString \in {Undefined, Str(gemini_1_5_flash), Str(dall_e_3)},
         tokens \in TokenCounts :
           CallCost(neuroSwitchProvider, modelIdString, tokens[1], tokens[2])
    \/ QueryModels
    \/ QueryModelsFails
    \/ QueryPrime
    \/ QueryPrimeFails
    \/ CallEnds

\* calls of the calculator while admin model updates and model syncs run
SpecPricing == InitPricing /\ [][NextPricing]_vars

\* C18: whatever rates admin model updates and model syncs have stored, a call
\* of calculateLlmProviderCost with token counts >= 0 returns a cost >= 0.
C18_CostNeverNegative ==
    CostReturned => NonNegative(call.ret)

\* ==================================================== the role-update route
\* (PUT /api/admin/users/:userId/role)
VALID_ROLES ==
    {role_admin, pro, role_user, <<"s", "u", "b", "_", "u", "s", "e", "r">>,
     <<"t", "e", "s", "t", "e", "r">>}

RoleRequest(adminUser, userId, role) ==
    [user |-> adminUser, userId |-> userId, role |-> role]

UserObject(id) == [type |-> "object", id |-> Num(id, 1)]

\* role-update requests: issued by user 1, user 2 or nobody; for users 1, 2,
\* 3 (who does not exist) and a malformed id; to the roles 'user', 'Admin',
\* 'root' and none
RoleRequests ==
    {RoleRequest(adminUser, userId, role) :
        adminUser \in {UserObject(1), UserObject(2)},
        userId \in {<<"1">>, <<"2">>, <<"3">>, <<"x">>},
        role \in {Str(role_user), Str(<<"A">> \o Tail(role_admin)),
                  Str(<<"r", "o", "o", "t">>),
                  Undefined}}
    \cup {RoleRequest(Undefined, <<"2">>, Str(role_user))}

\* users.role when the requests arrive: users 1 and 2, at least one an admin
InitRoleStates ==
    {f \in [{1, 2} -> {role_admin, role_user}] : \E u \in {1, 2} : f[u] = role_admin}

InitRole ==
    /\ users = InitUsers
    /\ user_credits = InitCredits
    /\ credit_transactions = InitTransactions
    /\ admin_actions_logs = <<>>
    /\ rowLock = [u \in UserIds |-> 0]
    /\ nreq = 0
    /\ http = [r \in Reqs |-> NoRequest]
    /\ pc = [r \in Reqs |-> "idle"]
    /\ local = [r \in Reqs |-> NoLocals]
    /\ txn = [r \in Reqs |-> NoWrites]
    /\ res = [r \in Reqs |-> NoResponse]
    /\ faults = 0
    /\ overlapped = [r \in Reqs |-> FALSE]
    /\ applied = {}
    /\ roles \in InitRoleStates
    /\ roleReq = [r \in Reqs |-> NoRoleRequest]
    /\ models = <<>>
    /\ app_config = SeedConfig
    /\ call = NoCall
    /\ AdminIdle

\* the status a request is refused with before the handler opens its
\* transaction, 0 when it is not refused
RoleRefusal(q) ==
    LET targetUserId == ParseInt(q.userId)
    IN  IF Unauthorized(q.user) THEN 401
        ELSE IF targetUserId = <<>> THEN 400
        ELSE IF \/ Falsy(q.role) \/ Typeof(q.role) # "string"
                \/ ToLowerCase(q.role.str) \notin VALID_ROLES
        THEN 400
        ELSE IF targetUserId[1] = NumberValue(q.user.id)
                /\ ToLowerCase(q.role.str) # role_admin
        THEN 403
        ELSE 0

\* the handler answers and its connection is released
RoleRespond(r, status) ==
    roleReq' = [roleReq EXCEPT ![r].pc = "done", ![r].status = status, ![r].write = <<>>]

\* no handler of the user routes is serving request r
Unserved(r) == roleReq[r].pc = "idle" /\ createReq[r].pc = "idle"

\* A role-update request arrives from a user who is an admin at that moment
\* (or from nobody); the handler runs up to its first await.
RoleArrive(r, q) ==
    /\ Unserved(r)
    /\ \A s \in Reqs : s < r => ~Unserved(s)
    /\ IF Unauthorized(q.user) THEN TRUE
       ELSE roles[NumberValue(q.user.id)] = role_admin
    /\ IF RoleRefusal(q) # 0
       THEN roleReq' = [roleReq EXCEPT ![r].pc = "done", ![r].newRole = q.role,
                                       ![r].status = RoleRefusal(q)]
       ELSE roleReq' = [roleReq EXCEPT ![r] =
                [NoRoleRequest EXCEPT !.pc = "select",
                                      !.newRole = q.role,
                                      !.adminUserId = NumberValue(q.user.id),
                                      !.targetUserId = ParseInt(q.userId)[1],
                                      !.normalizedNewRole = ToLowerCase(q.role.str)]]
    /\ UNCHANGED <<roles, creditVars, costVars, adminVars>>

\* SELECT role FROM users WHERE id = $1, and the two early answers
RoleSelect(r) ==
    /\ roleReq[r].pc = "select"
    /\ LET targetUserId == roleReq[r].targetUserId
       IN  IF targetUserId \notin DOMAIN roles THEN RoleRespond(r, 404)
           ELSE IF roles[targetUserId] = roleReq[r].normalizedNewRole
           THEN RoleRespond(r, 200)
           ELSE roleReq' = [roleReq EXCEPT ![r].pc = "update",
                                           ![r].currentRole = roles[targetUserId]]
    /\ UNCHANGED <<roles, creditVars, costVars, adminVars>>

\* another transaction holds the row of user u through an uncommitted UPDATE
RoleRowHeld(r, u) ==
    \E s \in Reqs \ {r} : roleReq[s].write # <<>> /\ roleReq[s].targetUserId = u

\* UPDATE users SET role = $1 WHERE id = $2: waits for the row, then writes
RoleUpdate(r) ==
    /\ roleReq[r].pc = "update"
    /\ ~RoleRowHeld(r, roleReq[r].targetUserId)
    /\ roleReq' = [roleReq EXCEPT ![r].pc = "log",
                                  ![r].write = <<roleReq[r].normalizedNewRole>>]
    /\ UNCHANGED <<roles, creditVars, costVars, adminVars>>

\* await logAdminAction(..., 'USER_ROLE_UPDATED', ..., client)
RoleLog(r) ==
    /\ roleReq[r].pc = "log"
    /\ roleReq' = [roleReq EXCEPT ![r].pc = "commit"]
    /\ UNCHANGED <<roles, creditVars, costVars, adminVars>>

\* COMMIT and the answer 200
RoleCommit(r) ==
    /\ roleReq[r].pc = "commit"
    /\ roles' = [roles EXCEPT ![roleReq[r].targetUserId] = roleReq[r].write[1]]
    /\ RoleRespond(r, 200)
    /\ UNCHANGED <<creditVars, costVars, adminVars>>

\* a statement of the try block is rejected
RoleQueryFails(r) ==
    /\ roleReq[r].pc \in {"select", "update", "log", "commit"}
    /\ roleReq' = [roleReq EXCEPT ![r].pc = "catch"]
    /\ UNCHANGED <<roles, creditVars, costVars, adminVars>>

\* catch: ROLLBACK and the answer 500
RoleCatch(r) ==
    /\ roleReq[r].pc = "catch"
    /\ RoleRespond(r, 500)
    /\ UNCHANGED <<roles, creditVars, costVars, adminVars>>

NextRole ==
    \E r \in Reqs :
        \/ \E q \in RoleRequests : RoleArrive(r, q)
        \/ RoleSelect(r)
        \/ RoleUpdate(r)
        \/ RoleLog(r)
        \/ RoleCommit(r)
        \/ RoleQueryFails(r)
        \/ RoleCatch(r)

\* role-update requests served concurrently
SpecRole == InitRole /\ [][NextRole]_vars

\* C20: starting with at least one admin, after any sequence or interleaving
\* of role-update requests issued by users who are admins when they issue
\* them, at least one user holds the role admin.
C20_AnAdminRemains ==
    \E u \in DOMAIN roles : roles[u] = role_admin

\* =================================================== the user-creation route
\* (POST /api/admin/users; the columns display_name, password_hash and
\* is_active of the new row are not modelled beyond the validation of
\* display_name)
CreateRequest(adminUser, email, display_name, role) ==
    [user |-> adminUser, email |-> email, display_name |-> display_name, role |-> role]

\* user-creation requests: issued by user 1 or by nobody; for a new address
\* in upper case or with a space before it, for the address of user 1, for a
\* blank address and for none; with and without a display name; with the
\* roles 'user', 'Admin', 'root' and none
CreateRequests ==
    {CreateRequest(UserObject(1), email, Str(<<"n">>), role) :
        email \in {Str(<<"C">>), Str(<<" ", "c">>), Str(<<"A">>), Str(<<" ">>), Undefined},
        role \in {Str(role_user), Str(<<"A">> \o Tail(role_admin)),
                  Str(<<"r", "o", "o", "t">>), Undefined}}
    \cup {CreateRequest(UserObject(1), Str(<<"c">>), Undefined, Str(role_user)),
          CreateRequest(Undefined, Str(<<"c">>), Str(<<"n">>), Str(role_user))}

\* the role check of a request body: the role is absent, not a string, or
\* not one of VALID_ROLES once lowercased
InvalidRole(role) ==
    \/ Falsy(role)
    \/ Typeof(role) # "string"
    \/ ToLowerCase(role.str) \notin VALID_ROLES

\* the status a request is refused with before the handler opens its
\* transaction, 0 when it is not refused
CreateRefusalAnyRole(q) ==
    IF Unauthorized(q.user) THEN 401
    ELSE IF \/ Falsy(q.email) \/ Typeof(q.email) # "string"
            \/ Trim(q.email.str) = <<>>
    THEN 400
    ELSE IF \/ Falsy(q.display_name) \/ Typeof(q.display_name) # "string"
            \/ Trim(q.display_name.str) = <<>>
    THEN 400
    ELSE IF Falsy(q.role) \/ Typeof(q.role) # "string"
    THEN 400
    ELSE 0

CreateRefusal(q) ==
    IF Unauthorized(q.user) THEN 401
    ELSE IF \/ Falsy(q.email) \/ Typeof(q.email) # "string"
            \/ Trim(q.email.str) = <<>>
    THEN 400
    ELSE IF \/ Falsy(q.display_name) \/ Typeof(q.display_name) # "string"
            \/ Trim(q.display_name.str) = <<>>
    THEN 400
    ELSE IF InvalidRole(q.role)
    THEN 400
    ELSE 0

\* the handler answers and its connection is released; what its transaction
\* wrote and did not commit is gone
CreateRespond(r, status) ==
    createReq' = [createReq EXCEPT ![r].pc = "done", ![r].status = status,
                                   ![r].userRow = <<>>, ![r].credit = <<>>]

\* A user-creation request arrives from an admin (requireAdminRole) or, the
\* token carrying no user, from nobody; the handler runs up to its first await.
CreateArrive(r, q) ==
    /\ Unserved(r)
    /\ \A s \in Reqs : s < r => ~Unserved(s)
    /\ IF Unauthorized(q.user) THEN TRUE
       ELSE roles[NumberValue(q.user.id)] = role_admin
    /\ IF CreateRefusal(q) # 0
       THEN createReq' = [createReq EXCEPT ![r].pc = "done", ![r].role = q.role,
                                           ![r].status = CreateRefusal(q)]
       ELSE createReq' = [createReq EXCEPT ![r] =
                [NoCreateRequest EXCEPT !.pc = "select",
                                        !.role = q.role,
                                        !.adminUserId = NumberValue(q.user.id),
                                        !.normalizedEmail = ToLowerCase(Trim(q.email.str)),
                                        !.normalizedRole = ToLowerCase(q.role.str)]]
    /\ UNCHANGED <<emails, users_id_seq, syncReq, uploadVars, keyVars, creditVars, roleVars, costVars>>

\* a committed row of users has this email
EmailTaken(email) == \E u \in DOMAIN emails : emails[u] = email

\* SELECT id FROM users WHERE email = $1, and the answer 409 after ROLLBACK
CreateSelect(r) ==
    /\ createReq[r].pc = "select"
    /\ IF EmailTaken(createReq[r].normalizedEmail)
       THEN CreateRespond(r, 409)
       ELSE createReq' = [createReq EXCEPT ![r].pc = "insertUser"]
    /\ UNCHANGED <<emails, users_id_seq, syncReq, uploadVars, keyVars, creditVars, roleVars, costVars>>

\* another transaction holds an uncommitted users row with this email: the
\* unique index makes the INSERT wait for it
EmailHeld(r, email) ==
    \E s \in Reqs \ {r} :
        createReq[s].userRow # <<>> /\ createReq[s].normalizedEmail = email

\* INSERT INTO users ... RETURNING id: the id comes from the sequence, which
\* no rollback takes back; a committed row with the same email raises
\* unique_violation
CreateInsertUser(r) ==
    /\ createReq[r].pc = "insertUser"
    /\ ~EmailHeld(r, createReq[r].normalizedEmail)
    /\ users_id_seq' = users_id_seq + 1
    /\ IF EmailTaken(createReq[r].normalizedEmail)
       THEN createReq' = [createReq EXCEPT ![r].pc = "catch",
                                           ![r].code = <<"23505">>]
       ELSE createReq' = [createReq EXCEPT ![r].pc = "insertCredits",
                                           ![r].newUser = <<users_id_seq + 1>>,
                                           ![r].userRow = <<users_id_seq + 1>>]
    /\ UNCHANGED <<emails, syncReq, uploadVars, keyVars, creditVars, roleVars, costVars>>

\* INSERT INTO user_credits (user_id, balance_cents, updated_at) VALUES ($1, 0, NOW())
CreateInsertCredits(r) ==
    /\ createReq[r].pc = "insertCredits"
    /\ createReq' = [createReq EXCEPT ![r].pc = "log", ![r].credit = <<0>>]
    /\ UNCHANGED <<emails, users_id_seq, syncReq, uploadVars, keyVars, creditVars, roleVars, costVars>>

\* await logAdminAction(adminUserId, 'USER_CREATED', ..., client)
CreateLog(r) ==
    /\ createReq[r].pc = "log"
    /\ createReq' = [createReq EXCEPT ![r].pc = "commit"]
    /\ UNCHANGED <<emails, users_id_seq, syncReq, uploadVars, keyVars, creditVars, roleVars, costVars>>

\* a table column after a row for id is added to it
WithRowNone(column, id, value) == column

WithRow(column, id, value) ==
    [u \in DOMAIN column \cup {id} |-> IF u = id THEN value ELSE column[u]]

\* COMMIT and the answer 201: the rows of the transaction become visible
CreateCommit(r) ==
    /\ createReq[r].pc = "commit"
    /\ LET id == createReq[r].userRow[1]
       IN  /\ users' = users \cup {id}
           /\ emails' = WithRow(emails, id, createReq[r].normalizedEmail)
           /\ roles' = WithRow(roles, id, createReq[r].normalizedRole)
           /\ user_credits' = WithRow(user_credits, id, createReq[r].credit)
           /\ rowLock' = WithRow(rowLock, id, 0)
    /\ CreateRespond(r, 201)
    /\ UNCHANGED <<credit_transactions, admin_actions_logs, nreq, http, pc, local,
                   txn, res, faults, overlapped, applied,
                   users_id_seq, syncReq, uploadVars, keyVars, roleReq, costVars>>

\* a statement of the try block is rejected
CreateQueryFails(r) ==
    /\ createReq[r].pc \in {"select", "insertUser", "insertCredits", "log", "commit"}
    /\ faults < MaxFaults
    /\ faults' = faults + 1
    /\ createReq' = [createReq EXCEPT ![r].pc = "catch"]
    /\ UNCHANGED <<db, rowLock, nreq, http, pc, local, txn, res, overlapped, applied,
                   emails, users_id_seq, syncReq, uploadVars, keyVars, roleVars, costVars>>

\* catch: ROLLBACK, then 409 for unique_violation and 500 otherwise
CreateCatch(r) ==
    /\ createReq[r].pc = "catch"
    /\ CreateRespond(r, IF createReq[r].code = <<"23505">> THEN 409 ELSE 500)
    /\ UNCHANGED <<emails, users_id_seq, syncReq, uploadVars, keyVars, creditVars, roleVars, costVars>>

\* users 1 and 2, both admins or one of them, and nothing being served
InitUsersRoutes == InitRole

NextUsers ==
    \E r \in Reqs :
        \/ \E q \in CreateRequests : CreateArrive(r, q)
        \/ CreateSelect(r)
        \/ CreateInsertUser(r)
        \/ CreateInsertCredits(r)
        \/ CreateLog(r)
        \/ CreateCommit(r)
        \/ CreateQueryFails(r)
        \/ CreateCatch(r)
        \/ \E q \in RoleRequests : RoleArrive(r, q)
        \/ RoleSelect(r)
        \/ RoleUpdate(r)
        \/ RoleLog(r)
        \/ RoleCommit(r)
        \/ RoleQueryFails(r)
        \/ RoleCatch(r)

\* user-creation and role-update requests served concurrently
SpecUsers == InitUsersRoutes /\ [][NextUsers]_vars

\* ------------------------------------------------------- claims on the users
\* the tables a user route can write
userTables == <<users, emails, roles, user_credits>>

\* C21: every role stored in users.role is a member of VALID_ROLES, whose
\* members are in lower case; a user-creation or role-update request whose
\* role is absent or not in the set once lowercased is answered 400 (401 when
\* it carries no user) on arrival, ends there and leaves every users row as
\* it was.
C21_RolesInFixedSet ==
    /\ [](\A u \in DOMAIN roles : roles[u] \in VALID_ROLES /\ ToLowerCase(roles[u]) = roles[u])
    /\ [][\A r \in Reqs :
            /\ (roleReq[r].pc = "idle" /\ roleReq'[r].pc # "idle"
                    /\ InvalidRole(roleReq'[r].newRole))
               => /\ roleReq'[r].pc = "done"
                  /\ roleReq'[r].status \in {400, 401}
                  /\ UNCHANGED userTables
            /\ (createReq[r].pc = "idle" /\ createReq'[r].pc # "idle"
                    /\ InvalidRole(createReq'[r].role))
               => /\ createReq'[r].pc = "done"
                  /\ createReq'[r].status \in {400, 401}
                  /\ UNCHANGED userTables
            /\ (roleReq[r].pc = "done" => roleReq'[r] = roleReq[r])
            /\ (createReq[r].pc = "done" => createReq'[r] = createReq[r])]_vars

\* a creation with role 'Admin' has stored 'admin', a role update has
\* committed, and a request with role 'root' has been answered 400
C21_Witness ==
    /\ \E r \in Reqs :
           /\ createReq[r].status = 201
           /\ roles[createReq[r].newUser[1]] = role_admin
    /\ \E r \in Reqs :
           /\ roleReq[r].status = 400
           /\ roleReq[r].pc = "done"
           /\ roleReq[r].newRole = Str(<<"r", "o", "o", "t">>)

\* ------------------------------------------- claims on the adjustment route
\* the target of the request is the admin who sends it
SelfAdjustment(q) ==
    /\ ~Unauthorized(q.user)
    /\ ParseInt(q.userId) # <<>>
    /\ ParseInt(q.userId)[1] = NumberValue(q.user.id)

\* C22 (as stated): an adjust-credits request whose target is the acting
\* admin is rejected: none is ever applied.
C22_SelfAdjustmentRejected ==
    \A r \in applied : local[r].targetUserId # local[r].adminUserId

\* C22 (amended): the handler has no self-adjustment check: a request whose
\* target is the acting admin and whose amount and reason are valid passes
\* the synchronous checks and goes on to its transaction like any other.
C22_SelfAdjustmentUnchecked ==
    [][\A r \in Reqs :
          (/\ pc[r] = "received"
           /\ pc'[r] # "received"
           /\ SelfAdjustment(http[r])
           /\ ~InvalidAmount(http[r].amount_cents)
           /\ ~InvalidReason(http[r].reason))
          => pc'[r] = "select" /\ res'[r] = NoResponse]_vars

\* an admin's adjustment of their own balance has been committed and answered 200
C22_Witness ==
    \E r \in applied :
        /\ local[r].targetUserId = local[r].adminUserId
        /\ pc[r] = "done"
        /\ res[r].status = 200

\* ------------------------------------------------ claims on the model routes
\* C23: after any sequence of admin model updates and model syncs, every row
\* of models has input_cost_per_million_tokens >= 0 and
\* output_cost_per_million_tokens >= 0.
C23_RatesNeverNegative ==
    \A i \in 1..Len(models) :
        /\ NonNegative(models[i].input_cost_per_million_tokens)
        /\ NonNegative(models[i].output_cost_per_million_tokens)

\* ====================================================== the model-sync route
\* (POST /api/admin/models/sync), statement by statement
claude_3 == anthropic \o <<"/">> \o claude \o <<".", "3">>

gemini_flash_1_5 == google \o <<"/">> \o gemini \o <<"-">> \o flash \o <<"-", "1", ".", "5">>

\* cache files: two models of target providers; a model of another provider,
\* then the same model twice at different prices
SyncCaches ==
    LET g == CacheModel(gemini_flash_1_5, <<"0", ".", "0", "0", "0", "0", "0", "3">>, <<"0">>)
        c == CacheModel(claude_3, <<"0", ".", "0", "0", "0", "0", "0", "1">>, <<"0">>)
        d == CacheModel(claude_3, <<"0", ".", "0", "0", "0", "0", "0", "2">>, <<"0">>)
        m == CacheModel(<<"m", "i", "s", "t", "r", "a", "l", "/", "7", "b">>, <<"0">>, <<"0">>)
    IN  {<<g, c>>, <<m, c, d>>}

\* POST /sync requests: the cache files above, no file, a file that does not
\* parse, a wrong action, no authenticated user
StepSyncRequests ==
    {SyncRequest(Admin, Str(<<"s", "y", "n", "c">>), [file |-> "ok", data |-> data]) :
        data \in SyncCaches}
    \cup {SyncRequest(Admin, Str(<<"s", "y", "n", "c">>), [file |-> f, data |-> <<>>]) :
            f \in {"missing", "corrupt"}}
    \cup {SyncRequest(Admin, Undefined, [file |-> "ok", data |-> <<>>]),
          SyncRequest(Undefined, Str(<<"s", "y", "n", "c">>), [file |-> "ok", data |-> <<>>])}

\* PUT /:modelId requests that switch the first row on or off
TogglePutRequests ==
    {PutRequest(Admin, <<"1">>, <<"1">>, <<"2">>, Bool(is_active)) :
        is_active \in BOOLEAN}

\* table models holds the Gemini model and a fixed-price model, both active
InitSync ==
    /\ InitCost
    /\ app_config = SeedConfig
    /\ Len(models) = 2

\* the handler answers and its connection is released; what its transaction
\* wrote and did not commit is gone
SyncRespond(r, status) ==
    syncReq' = [syncReq EXCEPT ![r].pc = "done", ![r].status = status,
                               ![r].written = <<>>, ![r].audit = <<>>]

\* POST /sync arrives: the checks of the request, then pool.connect() and
\* the await of BEGIN
SyncArrive(r, q) ==
    /\ syncReq[r].pc = "idle"
    /\ \A s \in Reqs : s < r => syncReq[s].pc # "idle"
    /\ IF Falsy(q.user) \/ Falsy(q.user.id) THEN SyncRespond(r, 401)
       ELSE IF ~(Typeof(q.action) = "string" /\ q.action.str = <<"s", "y", "n", "c">>)
       THEN SyncRespond(r, 400)
       ELSE syncReq' = [syncReq EXCEPT ![r] =
                [NoSyncRequest EXCEPT !.pc = "begin",
                                      !.adminUserId = NumberValue(q.user.id),
                                      !.cache = q.cache]]
    /\ UNCHANGED <<createVars, uploadVars, keyVars, creditVars, roleVars, costVars>>

\* the loop `for (const model of targetModels)` at its next model, or past
\* its end at logAdminAction
LoopAt(targetModels) == IF targetModels = <<>> THEN "log" ELSE "select"

\* after BEGIN: the cache file is read and filtered; without a readable
\* file, ROLLBACK and the answer 400
SyncReadCache(r) ==
    /\ syncReq[r].pc = "begin"
    /\ IF syncReq[r].cache.file # "ok" THEN SyncRespond(r, 400)
       ELSE LET targetModels ==
                    SelectSeq(syncReq[r].cache.data,
                              LAMBDA model : ProviderPrefix(model.id) \in TARGET_PROVIDERS)
            IN  syncReq' = [syncReq EXCEPT ![r].pc = LoopAt(targetModels),
                                           ![r].targetModels = targetModels]
    /\ UNCHANGED <<createVars, uploadVars, keyVars, creditVars, roleVars, costVars>>

\* table models as the transaction of request r sees it: the committed rows
\* and its own writes
SyncView(r) == UpsertAll(models, syncReq[r].written)

HasRow(table, id_string) == \E i \in 1..Len(table) : table[i].id_string = id_string

\* upsertModel's catch: the error is counted and the loop goes on; the
\* transaction stays in the failed state the error put it in
UpsertErrorRollsBackToSavepoint(q) ==
    [q EXCEPT !.stats.errors = @ + 1,
              !.targetModels = Tail(@),
              !.pc = LoopAt(Tail(q.targetModels))]

UpsertError(q) ==
    [q EXCEPT !.stats.errors = @ + 1,
              !.aborted = TRUE,
              !.targetModels = Tail(@),
              !.pc = LoopAt(Tail(q.targetModels))]

\* upsertModel up to the answer of its SELECT id, is_active FROM models
\* WHERE id_string = $1; a model of an unknown provider is skipped
SyncSelect(r) ==
    /\ syncReq[r].pc = "select"
    /\ LET q == syncReq[r]
           model == Head(q.targetModels)
       IN  IF PROVIDER_MAPPING(ProviderPrefix(model.id)) = <<>>
           THEN syncReq' = [syncReq EXCEPT ![r].stats.skipped = @ + 1,
                                           ![r].targetModels = Tail(@),
                                           ![r].pc = LoopAt(Tail(q.targetModels))]
           ELSE IF q.aborted
           THEN syncReq' = [syncReq EXCEPT ![r] = UpsertError(q)]
           ELSE syncReq' = [syncReq EXCEPT
                               ![r].existing = HasRow(SyncView(r), normalizeIdString(model.id)),
                               ![r].pc = "write"]
    /\ UNCHANGED <<createVars, uploadVars, keyVars, creditVars, roleVars, costVars>>

\* another transaction holds the row with this id_string, updated or
\* inserted and not yet committed
ModelRowHeld(r, id_string) ==
    \E s \in Reqs \ {r} :
        \E i \in 1..Len(syncReq[s].written) :
            normalizeIdString(syncReq[s].written[i].id) = id_string

\* upsertModel's UPDATE models SET ... WHERE id_string = $12, or its INSERT
\* INTO models, which raises unique_violation when another transaction has
\* committed the id_string since the SELECT
SyncWrite(r) ==
    /\ syncReq[r].pc = "write"
    /\ LET q == syncReq[r]
           model == Head(q.targetModels)
           normalizedId == normalizeIdString(model.id)
       IN  /\ ~ModelRowHeld(r, normalizedId)
           /\ IF ~q.existing /\ HasRow(SyncView(r), normalizedId)
              THEN syncReq' = [syncReq EXCEPT ![r] = UpsertError(q)]
              ELSE syncReq' = [syncReq EXCEPT
                       ![r].written = Append(@, model),
                       ![r].stats.updated = IF q.existing THEN @ + 1 ELSE @,
                       ![r].stats.created = IF q.existing THEN @ ELSE @ + 1,
                       ![r].targetModels = Tail(@),
                       ![r].pc = LoopAt(Tail(q.targetModels))]
    /\ UNCHANGED <<createVars, uploadVars, keyVars, creditVars, roleVars, costVars>>

\* a statement of upsertModel is rejected
SyncUpsertFails(r) ==
    /\ syncReq[r].pc \in {"select", "write"}
    /\ PROVIDER_MAPPING(ProviderPrefix(Head(syncReq[r].targetModels).id)) # <<>>
    /\ ~syncReq[r].aborted
    /\ faults < MaxFaults
    /\ faults' = faults + 1
    /\ syncReq' = [syncReq EXCEPT ![r] = UpsertError(syncReq[r])]
    /\ UNCHANGED <<db, rowLock, nreq, http, pc, local, txn, res, overlapped, applied,
                   createVars, uploadVars, keyVars, roleVars, costVars>>

\* await logAdminAction(adminUserId, 'MODELS_SYNC_BULK', ..., client); in a
\* failed transaction the INSERT is rejected and the call throws
SyncLog(r) ==
    /\ syncReq[r].pc = "log"
    /\ IF syncReq[r].aborted
       THEN syncReq' = [syncReq EXCEPT ![r].pc = "catch"]
       ELSE syncReq' = [syncReq EXCEPT
                ![r].pc = "commit",
                ![r].audit = <<[admin_user_id |-> syncReq[r].adminUserId,
                                action_type |-> "MODELS_SYNC_BULK",
                                details |-> syncReq[r].stats,
                                by |-> r]>>]
    /\ UNCHANGED <<createVars, uploadVars, keyVars, creditVars, roleVars, costVars>>

\* COMMIT and the answer 200 with the stats
SyncCommit(r) ==
    /\ syncReq[r].pc = "commit"
    /\ IF syncReq[r].aborted
       THEN UNCHANGED <<models, admin_actions_logs>>
       ELSE /\ models' = UpsertAll(models, syncReq[r].written)
            /\ admin_actions_logs' = admin_actions_logs \o syncReq[r].audit
    /\ SyncRespond(r, 200)
    /\ UNCHANGED <<users, user_credits, credit_transactions, rowLock, nreq, http, pc,
                   local, txn, res, faults, overlapped, applied,
                   app_config, call, createVars, uploadVars, keyVars, roleVars>>

\* BEGIN, logAdminAction or COMMIT is rejected
SyncQueryFails(r) ==
    /\ syncReq[r].pc \in {"begin", "log", "commit"}
    /\ faults < MaxFaults
    /\ faults' = faults + 1
    /\ syncReq' = [syncReq EXCEPT ![r].pc = "catch"]
    /\ UNCHANGED <<db, rowLock, nreq, http, pc, local, txn, res, overlapped, applied,
                   createVars, uploadVars, keyVars, roleVars, costVars>>

\* catch: ROLLBACK; logAdminAction(..., 'MODELS_SYNC_BULK_FAILED', ...)
\* without the client, which writes its row on a connection of its own or
\* fails and is ignored; the answer 500
SyncCatch(r) ==
    /\ syncReq[r].pc = "catch"
    /\ \/ admin_actions_logs' =
              Append(admin_actions_logs,
                     [admin_user_id |-> syncReq[r].adminUserId,
                      action_type |-> "MODELS_SYNC_BULK_FAILED"])
       \/ UNCHANGED admin_actions_logs
    /\ SyncRespond(r, 500)
    /\ UNCHANGED <<users, user_credits, credit_transactions, rowLock, nreq, http, pc,
                   local, txn, res, faults, overlapped, applied,
                   createVars, uploadVars, keyVars, roleVars, costVars>>

\* the UPDATE of PUT /:modelId waits while a sync holds the row
PutWaits(q) ==
    /\ ParseInt(q.modelId) # <<>>
    /\ ParseInt(q.modelId)[1] \in 1..Len(models)
    /\ ModelRowHeld(0, models[ParseInt(q.modelId)[1]].id_string)

\* PUT /:modelId while syncs run
UpdateModelDuringSync(q) ==
    /\ ~PutWaits(q)
    /\ UpdateModel(q)

NextSync ==
    \/ \E q \in TogglePutRequests : UpdateModelDuringSync(q)
    \/ \E r \in Reqs :
        \/ \E q \in StepSyncRequests : SyncArrive(r, q)
        \/ SyncReadCache(r)
        \/ SyncSelect(r)
        \/ SyncWrite(r)
        \/ SyncUpsertFails(r)
        \/ SyncLog(r)
        \/ SyncCommit(r)
        \/ SyncQueryFails(r)
        \/ SyncCatch(r)

\* model syncs served concurrently with each other and with model updates
SpecSync == InitSync /\ [][NextSync]_vars

\* --------------------------------------------------- claims on the model sync
\* every row of table before is in table after with the same is_active
ActivationKept(before, after) ==
    \A i \in 1..Len(before) :
        \E j \in 1..Len(after) :
            /\ after[j].id_string = before[i].id_string
            /\ after[j].is_active = before[i].is_active

\* C24: a step of a sync handler (its COMMIT included) leaves is_active of
\* every models row that existed as it was, whatever the cache holds, and
\* every row it adds has is_active = FALSE; is_active of a row changes only
\* in a step of the model update endpoint.
C24_SyncPreservesActivation ==
    [][/\ syncReq' # syncReq
          => /\ ActivationKept(models, models')
             /\ \A j \in 1..Len(models') :
                    ~HasRow(models, models'[j].id_string) => ~models'[j].is_active
       /\ ~ActivationKept(models, models')
          => \E q \in TogglePutRequests : UpdateModel(q)]_vars

\* a sync has committed one created and one updated model: the row it
\* created is inactive and the row it updated, switched off before by the
\* update endpoint, is still off and carries the cache's price
C24_Witness ==
    /\ \E r \in Reqs :
           /\ syncReq[r].status = 200
           /\ syncReq[r].stats.created = 1
           /\ syncReq[r].stats.updated = 1
    /\ Len(models) = 3
    /\ ~models[3].is_active
    /\ ~models[1].is_active
    /\ models[1].input_cost_per_million_tokens = Rat(3, 1)

\* the models of a cache file that belong to the target providers
TargetModels(cache) ==
    SelectSeq(cache.data, LAMBDA model : ProviderPrefix(model.id) \in TARGET_PROVIDERS)

\* the rows of admin_actions_logs that record a completed sync
BulkEntries(log) ==
    SelectSeq(log, LAMBDA entry : entry.action_type = "MODELS_SYNC_BULK")

\* C25: every step of a sync request either leaves table models and the
\* MODELS_SYNC_BULK audit entries as they were, or is its COMMIT, which makes
\* visible at once the upsert of every target-provider model of its cache
\* and its one MODELS_SYNC_BULK entry; a request in which an upsert has
\* failed never changes table models.
C25_SyncAtomic ==
    [][\A r \in Reqs :
          syncReq'[r] # syncReq[r]
          => /\ \/ /\ models' = models
                   /\ BulkEntries(admin_actions_logs') = BulkEntries(admin_actions_logs)
                \/ /\ syncReq[r].pc = "commit"
                   /\ syncReq'[r].status = 200
                   /\ models' = UpsertAll(models, TargetModels(syncReq[r].cache))
                   /\ BulkEntries(admin_actions_logs') =
                          BulkEntries(admin_actions_logs) \o syncReq[r].audit
                   /\ Len(syncReq[r].audit) = 1
             /\ syncReq'[r].stats.errors > 0 => models' = models]_vars

\* a sync whose first upsert succeeded and whose second failed has ended
\* with 500, and table models is as it was before
C25_Witness ==
    \E r \in Reqs :
        /\ syncReq[r].pc = "done"
        /\ syncReq[r].status = 500
        /\ syncReq[r].stats.errors = 1
        /\ syncReq[r].stats.created + syncReq[r].stats.updated = 1
        /\ \A s \in Reqs \ {r} : syncReq[s].pc = "idle"
        /\ models \in InitModelTables

\* ------------------------------------------------- claims on user creation
\* C26: every user created through the admin API has exactly one
\* user_credits row, with balance_cents = 0, made visible by the same COMMIT
\* as the users row; a creation request that did not end with 201 (duplicate
\* email, rejected statement, failed audit log) leaves neither a users row
\* nor a user_credits row for the id it drew.
C26_UserCreatedWithZeroCredits ==
    /\ [](\A u \in users \ InitUsers :
             /\ u \in DOMAIN user_credits
             /\ user_credits[u] = <<0>>
             /\ \E r \in Reqs : createReq[r].status = 201 /\ createReq[r].newUser = <<u>>)
    /\ [](\A r \in Reqs :
             (createReq[r].pc = "done" /\ createReq[r].status # 201
                  /\ createReq[r].newUser # <<>>)
             => /\ createReq[r].newUser[1] \notin users
                /\ createReq[r].newUser[1] \in DOMAIN user_credits
                       => user_credits[createReq[r].newUser[1]] = <<>>)
    /\ [][\A u \in users' \ users :
             /\ u \in DOMAIN user_credits'
             /\ user_credits'[u] = <<0>>
             /\ \A v \in users : user_credits'[v] = user_credits[v]]_vars

\* one creation has committed user 3 with a zero balance, and another, which
\* had inserted its users row and its user_credits row, has failed and left
\* nothing
C26_Witness ==
    /\ \E r \in Reqs :
           /\ createReq[r].status = 201
           /\ createReq[r].newUser[1] \in users
           /\ user_credits[createReq[r].newUser[1]] = <<0>>
    /\ \E r \in Reqs :
           /\ createReq[r].status = 500
           /\ createReq[r].newUser # <<>>
           /\ createReq[r].newUser[1] \notin users

\* --------------------------------------- more claims on the adjustment route
\* the committed balance of user u, 0 without a row
StoredBalance(u) == IF user_credits[u] = <<>> THEN 0 ELSE user_credits[u][1]

\* C27: in an adjustment that no other adjustment of the same user overlaps,
\* the row its transaction holds after the third upsert is the stored
\* balance plus amount_cents (0 plus amount_cents without a row), and that
\* is what its COMMIT stores.
C27_ThreeUpsertsAddOnce ==
    /\ [](\A r \in Reqs :
             (pc[r] \in {"insertTx", "log", "commit"} /\ ~overlapped[r])
             => txn[r].row =
                    <<StoredBalance(local[r].targetUserId) + local[r].amount_cents>>)
    /\ [][\A r \in Reqs :
             (pc[r] = "commit" /\ pc'[r] = "done" /\ res'[r].status = 200
                  /\ ~overlapped[r])
             => user_credits'[local[r].targetUserId] =
                    <<StoredBalance(local[r].targetUserId) + local[r].amount_cents>>]_vars

\* an adjustment of user 1, whose row held 100, has committed 150, and one
\* of user 2, who has no row, holds 50 after its third upsert
C27_Witness ==
    \E r, s \in Reqs :
        /\ pc[r] = "done" /\ res[r].status = 200 /\ ~overlapped[r]
        /\ local[r].targetUserId = 1 /\ local[r].amount_cents = 50
        /\ user_credits[1] = <<150>>
        /\ pc[s] = "insertTx" /\ ~overlapped[s]
        /\ local[s].targetUserId = 2 /\ local[s].amount_cents = 50
        /\ local[s].rows = <<>>
        /\ txn[s].row = <<50>>

\* ======================= the adjustment route when connections can be lost
\* The connection of request r drops while a statement of its transaction is
\* awaited. The server discards the transaction, unless the statement was
\* COMMIT, which it may have carried out; the awaited query rejects and
\* control passes to the catch block.
ConnectionLost(r) ==
    /\ pc[r] \in StatementPcs
    /\ faults < MaxFaults
    /\ faults' = faults + 1
    /\ \/ RollbackTxn(r)
       \/ pc[r] = "commit" /\ CommitTxn(r)
    /\ pc' = [pc EXCEPT ![r] = "catchLost"]
    /\ UNCHANGED <<nreq, http, local, res, overlapped,
                   roleVars, costVars, adminVars>>

\* catch on a lost connection: `await client.query('ROLLBACK')` rejects, the
\* exception leaves the catch block before res.status(500); finally:
\* client.release(). Nothing is sent.
CatchRollbackRejected(r) ==
    /\ pc[r] = "catchLost"
    /\ pc' = [pc EXCEPT ![r] = "released"]
    /\ UNCHANGED <<db, rowLock, nreq, http, local, txn, res, faults, overlapped,
                   applied, roleVars, costVars, adminVars>>

\* the steps of request r's handler that run once the database has answered
HandlerStep(r) ==
    \/ Receive(r)
    \/ SelectBalance(r)
    \/ SelectUser(r)
    \/ Upsert1(r)
    \/ Upsert2(r)
    \/ Upsert3(r)
    \/ InsertTransaction(r)
    \/ LogAdminAction(r)
    \/ Commit(r)
    \/ CatchRollback(r)
    \/ CatchRollbackRejected(r)

NextLossy ==
    \E r \in Reqs :
        \/ Arrive(r)
        \/ Receive(r)
        \/ SelectBalance(r)
        \/ SelectUser(r)
        \/ Upsert1(r)
        \/ Upsert2(r)
        \/ Upsert3(r)
        \/ InsertTransaction(r)
        \/ LogAdminAction(r)
        \/ Commit(r)
        \/ QueryFails(r)
        \/ LogAdminActionFails(r)
        \/ CatchRollback(r)
        \/ ConnectionLost(r)
        \/ CatchRollbackRejected(r)

\* adjustments served concurrently over connections that can drop; a handler
\* whose awaited query has been answered, or whose row has become free, runs on
SpecLossy ==
    /\ Init
    /\ [][NextLossy]_vars
    /\ \A r \in Reqs : WF_vars(HandlerStep(r))

\* C28: every adjust-credits request that has a connection and an open
\* transaction eventually has answered, with its transaction ended (nothing
\* uncommitted, no row held) and its connection released.
C28_EveryRequestAnswers ==
    \A r \in Reqs :
        /\ (pc[r] \in StatementPcs) ~> (pc[r] = "done" /\ res[r] # NoResponse)
        /\ [](pc[r] = "done" => txn[r] = NoWrites /\ \A u \in UserIds : rowLock[u] # r)

\* ------------------------------------------------- temporary-file upload
\* storageUploader.ts: uploadTempFile reads a temporary file, hands its
\* content to uploadFileContent, and removes the file afterwards.  The
\* synchronous part of a call up to its await is one step, the upload one
\* step, and the continuation after the await one step.

\* the files a temporary path can hold when the calls start: none, or one
\* that the process may or may not read and may or may not unlink
TempFiles ==
    {NoFile} \cup {[exists |-> TRUE, readable |-> rd, removable |-> rm] :
                       rd \in BOOLEAN, rm \in BOOLEAN}

\* the arguments of the calls: a filename with a known extension, one
\* without, or none; a MIME type or none
UploadFilenames == {Undefined, Str(<<"a", ".", "p", "n", "g">>), Str(<<"a">>)}

UploadMimeTypes == {Undefined, Str(<<"t", "e", "x", "t">>)}

octet_stream == <<"o", "c", "t", "e", "t">>

image_png == <<"i", "m", "a", "g", "e">>

\* the characters after the last "." of a path, <<>> when it has none
RECURSIVE ExtName(_)
ExtName(s) ==
    IF s = <<>> THEN <<>>
    ELSE IF "." \in {s[i] : i \in 2..Len(s)} THEN ExtName(Tail(s))
    ELSE IF Head(s) = "." THEN Tail(s)
    ELSE <<>>

\* mime.lookup(filename): the type of the extension of 'x.' + filename,
\* false (here <<>>) for an extension it does not know
MimeLookup(filename) ==
    IF ToLowerCase(ExtName(<<"x", ".">> \o filename)) = <<"p", "n", "g">>
    THEN image_png
    ELSE <<>>

\* the ContentType uploadFileContent sends
DetectedMimeType(filename, mimeType) ==
    IF ~Falsy(mimeType) THEN mimeType.str
    ELSE IF ~Falsy(filename)
         THEN IF MimeLookup(filename.str) # <<>> THEN MimeLookup(filename.str)
              ELSE octet_stream
    ELSE octet_stream

\* an UploadResult
UploadFailure(error) == [success |-> FALSE, error |-> error]

UploadSuccess == [success |-> TRUE, error |-> ""]

\* fs.unlinkSync that removes nothing
UnlinkSyncKeepsFile(files, path) == files

\* fs.unlinkSync(path) inside its own try/catch: the file is removed, or the
\* call throws and the directory is as it was
UnlinkSync(files, path) ==
    IF files[path].exists /\ files[path].removable
    THEN [files EXCEPT ![path] = NoFile]
    ELSE files

\* uploadTempFile(tempFilePath, filename, mimeType) is called: existsSync,
\* readFileSync, and the call of uploadFileContent up to its await
uploadTempFile(r, tempFilePath, filename, mimeType) ==
    /\ uploads[r].pc = "idle"
    /\ \A s \in Reqs : s < r => uploads[s].pc # "idle"
    /\ uploads' = [uploads EXCEPT ![r] =
          IF ~tmp[tempFilePath].exists
          THEN [NoUpload EXCEPT !.pc = "done", !.tempFilePath = tempFilePath,
                                !.filename = filename, !.mimeType = mimeType,
                                !.result = <<UploadFailure("Temporary file not found")>>]
          ELSE IF ~tmp[tempFilePath].readable
          THEN [NoUpload EXCEPT !.pc = "done", !.tempFilePath = tempFilePath,
                                !.filename = filename, !.mimeType = mimeType,
                                !.result = <<UploadFailure("readFileSync")>>]
          ELSE [NoUpload EXCEPT !.pc = "uploading", !.tempFilePath = tempFilePath,
                                !.filename = filename, !.mimeType = mimeType,
                                !.read = TRUE]]
    /\ UNCHANGED <<tmp, spaces, api_keys, keyReq, emails, users_id_seq, createReq,
                   syncReq, creditVars, roleVars, costVars>>

\* s3.upload(uploadParams).promise() settles inside uploadFileContent, which
\* turns a rejection into a failure result and never throws
uploadFileContent(r, stored) ==
    /\ uploads[r].pc = "uploading"
    /\ IF stored
       THEN /\ spaces' = Append(spaces,
                    [ContentType |-> DetectedMimeType(uploads[r].filename,
                                                      uploads[r].mimeType),
                     ContentDisposition |-> ~Falsy(uploads[r].filename)])
            /\ uploads' = [uploads EXCEPT ![r].pc = "uploaded",
                                          ![r].result = <<UploadSuccess>>]
       ELSE /\ spaces' = spaces
            /\ uploads' = [uploads EXCEPT ![r].pc = "uploaded",
                                          ![r].result = <<UploadFailure("s3.upload")>>]
    /\ UNCHANGED <<tmp, api_keys, keyReq, emails, users_id_seq, createReq,
                   syncReq, creditVars, roleVars, costVars>>

\* uploadTempFile resumes after its await: it unlinks the temporary file and
\* returns the result uploadFileContent gave
UploadReturn(r) ==
    /\ uploads[r].pc = "uploaded"
    /\ tmp' = UnlinkSync(tmp, uploads[r].tempFilePath)
    /\ uploads' = [uploads EXCEPT ![r].pc = "done"]
    /\ UNCHANGED <<spaces, api_keys, keyReq, emails, users_id_seq, createReq,
                   syncReq, creditVars, roleVars, costVars>>

\* the state before the first call: any files in the temporary directory
InitUpload ==
    /\ users = InitUsers
    /\ user_credits = InitCredits
    /\ credit_transactions = InitTransactions
    /\ admin_actions_logs = <<>>
    /\ rowLock = [u \in UserIds |-> 0]
    /\ nreq = 0
    /\ http = [r \in Reqs |-> NoRequest]
    /\ pc = [r \in Reqs |-> "idle"]
    /\ local = [r \in Reqs |-> NoLocals]
    /\ txn = [r \in Reqs |-> NoWrites]
    /\ res = [r \in Reqs |-> NoResponse]
    /\ faults = 0
    /\ overlapped = [r \in Reqs |-> FALSE]
    /\ applied = {}
    /\ roles = InitRoles
    /\ roleReq = [r \in Reqs |-> NoRoleRequest]
    /\ models = <<>>
    /\ app_config = SeedConfig
    /\ call = NoCall
    /\ emails = InitEmails
    /\ users_id_seq = 2
    /\ createReq = [r \in Reqs |-> NoCreateRequest]
    /\ syncReq = [r \in Reqs |-> NoSyncRequest]
    /\ tmp \in [TempPaths -> TempFiles]
    /\ spaces = <<>>
    /\ uploads = [r \in Reqs |-> NoUpload]
    /\ api_keys = <<>>
    /\ keyReq = [r \in Reqs |-> NoKeyRequest]

NextUpload ==
    \/ \E r \in Reqs, tempFilePath \in TempPaths, filename \in UploadFilenames,
          mimeType \in UploadMimeTypes :
            uploadTempFile(r, tempFilePath, filename, mimeType)
    \/ \E r \in Reqs, stored \in BOOLEAN : uploadFileContent(r, stored)
    \/ \E r \in Reqs : UploadReturn(r)

SpecUpload == InitUpload /\ [][NextUpload]_vars

\* a call that read its temporary file returns in this step
ReturnsAfterRead(r) ==
    uploads[r].pc = "uploaded" /\ uploads'[r].pc = "done" /\ uploads[r].read

sk_fusion == <<"s", "k", "-", "f", "u", "s", "i", "o", "n", "-">>

\* crypto.randomBytes(28).toString('hex') has 56 characters
HexLength == 56

\* the keys generateNewApiKey returns here: one, one that differs from it
\* only in a character the listing hides, and one that differs from it in a
\* character the listing shows
GeneratedKeys ==
    {sk_fusion \o [i \in 1..HexLength |-> IF i = at THEN "b" ELSE "a"] :
        at \in {0, 30, 2}}

KeyRequest(user, userId, name) == [user |-> user, userId |-> userId, name |-> name]

\* creation requests: for users 1, 2, 3 (who does not exist) and a malformed
\* id; with a name, a name to trim, a blank name and none; from an admin or
\* from nobody
KeyCreateRequests ==
    {KeyRequest(UserObject(1), userId, Str(<<"k">>)) :
        userId \in {<<"1">>, <<"2">>, <<"3">>, <<"x">>}}
    \cup {KeyRequest(UserObject(1), <<"1">>, name) :
        name \in {Str(<<" ", "k">>), Str(<<" ">>), Undefined}}
    \cup {KeyRequest(Undefined, <<"1">>, Str(<<"k">>))}

KeyListRequests ==
    {KeyRequest(UserObject(1), userId, Undefined) :
        userId \in {<<"1">>, <<"2">>, <<"3">>, <<"x">>}}
    \cup {KeyRequest(Undefined, <<"1">>, Undefined)}

\* the status a listing request is refused with on arrival, 0 when it is not
KeyListRefusal(q) ==
    IF Unauthorized(q.user) THEN 401
    ELSE IF ParseInt(q.userId) = <<>> THEN 400
    ELSE 0

\* the status a creation request is refused with on arrival, 0 when it is not
KeyCreateRefusal(q) ==
    IF KeyListRefusal(q) # 0 THEN KeyListRefusal(q)
    ELSE IF Falsy(q.name) \/ Typeof(q.name) # "string" \/ Trim(q.name.str) = <<>>
    THEN 400
    ELSE 0

\* String.prototype.substring(start, end): both clamped to 0..length, and
\* swapped when start > end
Substring(s, start, end) ==
    LET clamp(n) == IF n < 0 THEN 0 ELSE IF n > Len(s) THEN Len(s) ELSE n
        lo == IF clamp(start) <= clamp(end) THEN clamp(start) ELSE clamp(end)
        hi == IF clamp(start) <= clamp(end) THEN clamp(end) ELSE clamp(start)
    IN  SubSeq(s, lo + 1, hi)

\* a listing that shows the key whole
MaskShowsKey(api_key) == api_key

\* `${key.api_key.substring(0, 12)}...${key.api_key.substring(key.api_key.length - 4)}`,
\* null (here <<>>) for an empty key
MaskApiKey(api_key) ==
    IF api_key = <<>> THEN <<>>
    ELSE Substring(api_key, 0, 12) \o <<".", ".", ".">>
         \o Substring(api_key, Len(api_key) - 4, Len(api_key))

\* the rows in the order of ORDER BY created_at DESC
RECURSIVE OrderByCreatedAtDesc(_)
OrderByCreatedAtDesc(rows) ==
    IF rows = {} THEN <<>>
    ELSE LET newest == CHOOSE x \in rows : \A y \in rows : y.created_at <= x.created_at
         IN  <<newest>> \o OrderByCreatedAtDesc(rows \ {newest})

\* maskedKeys for the committed rows of a user
MaskedKeys(user_id) ==
    LET rows == OrderByCreatedAtDesc({api_keys[i] : i \in {j \in DOMAIN api_keys :
                                                       api_keys[j].user_id = user_id}})
    IN  [i \in DOMAIN rows |->
            [id |-> rows[i].id, name |-> rows[i].name,
             api_key_masked |-> MaskApiKey(rows[i].api_key)]]

\* the handler answers
KeyRespond(r, status) ==
    keyReq' = [keyReq EXCEPT ![r].pc = "done", ![r].row = <<>>,
                             ![r].res = [NoKeyResponse EXCEPT !.status = status]]

\* A creation request arrives; the handler runs up to BEGIN.
KeyCreateArrive(r, q) ==
    /\ keyReq[r].pc = "idle"
    /\ \A s \in Reqs : s < r => keyReq[s].pc # "idle"
    /\ IF KeyCreateRefusal(q) # 0
       THEN KeyRespond(r, KeyCreateRefusal(q))
       ELSE keyReq' = [keyReq EXCEPT ![r] =
                [NoKeyRequest EXCEPT !.pc = "select",
                                     !.adminUserId = NumberValue(q.user.id),
                                     !.targetUserId = ParseInt(q.userId)[1],
                                     !.name = Trim(q.name.str)]]
    /\ UNCHANGED <<api_keys, uploadVars, createVars, syncReq, creditVars, roleVars,
                   costVars>>

\* SELECT ... FROM users WHERE id = $1: 404 after ROLLBACK for no row,
\* otherwise generateNewApiKey() before the INSERT is sent
KeySelectUser(r, apiKey) ==
    /\ keyReq[r].pc = "select"
    /\ IF keyReq[r].targetUserId \notin users
       THEN KeyRespond(r, 404)
       ELSE keyReq' = [keyReq EXCEPT ![r].pc = "insert", ![r].apiKey = apiKey]
    /\ UNCHANGED <<api_keys, uploadVars, createVars, syncReq, creditVars, roleVars,
                   costVars>>

\* another transaction holds an uncommitted row with this key: the unique
\* index on api_key makes the INSERT wait for it
ApiKeyHeld(r, apiKey) ==
    \E s \in Reqs \ {r} : keyReq[s].row # <<>> /\ keyReq[s].apiKey = apiKey

\* the last value drawn from the sequence of api_keys.id, which no rollback
\* takes back
api_keys_id_seq ==
    LET ids == {keyReq[s].id : s \in Reqs} \cup {api_keys[i].id : i \in DOMAIN api_keys}
    IN  CHOOSE n \in ids \cup {0} : \A m \in ids : m <= n

\* INSERT INTO api_keys ... RETURNING ...: created_at is NOW(), the start of
\* the transaction; a committed row with the same key raises unique_violation
KeyInsert(r) ==
    /\ keyReq[r].pc = "insert"
    /\ ~ApiKeyHeld(r, keyReq[r].apiKey)
    /\ LET id == api_keys_id_seq + 1
       IN  IF \E i \in DOMAIN api_keys : api_keys[i].api_key = keyReq[r].apiKey
           THEN keyReq' = [keyReq EXCEPT ![r].pc = "catch", ![r].id = id,
                                         ![r].code = <<"23505">>]
           ELSE keyReq' = [keyReq EXCEPT ![r].pc = "log", ![r].id = id,
                               ![r].row = <<[id |-> id,
                                             user_id |-> keyReq[r].targetUserId,
                                             name |-> keyReq[r].name,
                                             api_key |-> keyReq[r].apiKey,
                                             created_at |-> r]>>]
    /\ UNCHANGED <<api_keys, uploadVars, createVars, syncReq, creditVars, roleVars,
                   costVars>>

\* await logAdminAction(adminUserId, 'API_KEY_CREATED_FOR_USER', ..., client)
KeyLog(r) ==
    /\ keyReq[r].pc = "log"
    /\ keyReq' = [keyReq EXCEPT ![r].pc = "commit"]
    /\ UNCHANGED <<api_keys, uploadVars, createVars, syncReq, creditVars, roleVars,
                   costVars>>

\* COMMIT and the answer 201, which carries the key in full
KeyCommit(r) ==
    /\ keyReq[r].pc = "commit"
    /\ api_keys' = Append(api_keys, keyReq[r].row[1])
    /\ keyReq' = [keyReq EXCEPT ![r].pc = "done", ![r].row = <<>>,
                     ![r].res = [NoKeyResponse EXCEPT !.status = 201,
                                     !.api_key = keyReq[r].row[1].api_key]]
    /\ UNCHANGED <<uploadVars, createVars, syncReq, creditVars, roleVars, costVars>>

\* a statement of the try block is rejected
KeyQueryFails(r) ==
    /\ keyReq[r].pc \in {"select", "insert", "log", "commit"}
    /\ faults < MaxFaults
    /\ faults' = faults + 1
    /\ keyReq' = [keyReq EXCEPT ![r].pc = "catch"]
    /\ UNCHANGED <<db, rowLock, nreq, http, pc, local, txn, res, overlapped, applied,
                   api_keys, uploadVars, createVars, syncReq, roleVars, costVars>>

\* catch: ROLLBACK, then 409 for unique_violation and 500 otherwise
KeyCatch(r) ==
    /\ keyReq[r].pc = "catch"
    /\ KeyRespond(r, IF keyReq[r].code = <<"23505">> THEN 409 ELSE 500)
    /\ UNCHANGED <<api_keys, uploadVars, createVars, syncReq, creditVars, roleVars,
                   costVars>>

\* A listing request arrives; the handler runs up to its first pool.query.
KeyListArrive(r, q) ==
    /\ keyReq[r].pc = "idle"
    /\ \A s \in Reqs : s < r => keyReq[s].pc # "idle"
    /\ IF KeyListRefusal(q) # 0
       THEN KeyRespond(r, KeyListRefusal(q))
       ELSE keyReq' = [keyReq EXCEPT ![r] =
                [NoKeyRequest EXCEPT !.pc = "listUser",
                                     !.adminUserId = NumberValue(q.user.id),
                                     !.targetUserId = ParseInt(q.userId)[1]]]
    /\ UNCHANGED <<api_keys, uploadVars, createVars, syncReq, creditVars, roleVars,
                   costVars>>

\* SELECT ... FROM users WHERE id = $1 of the listing: 404 for no row
KeyListUser(r) ==
    /\ keyReq[r].pc = "listUser"
    /\ IF keyReq[r].targetUserId \notin users
       THEN KeyRespond(r, 404)
       ELSE keyReq' = [keyReq EXCEPT ![r].pc = "listKeys"]
    /\ UNCHANGED <<api_keys, uploadVars, createVars, syncReq, creditVars, roleVars,
                   costVars>>

\* SELECT ... FROM api_keys WHERE user_id = $1 ORDER BY created_at DESC, and
\* the answer with the masked keys
KeyListKeys(r) ==
    /\ keyReq[r].pc = "listKeys"
    /\ keyReq' = [keyReq EXCEPT ![r].pc = "done",
                     ![r].res = [NoKeyResponse EXCEPT !.status = 200,
                                     !.api_keys = MaskedKeys(keyReq[r].targetUserId)]]
    /\ UNCHANGED <<api_keys, uploadVars, createVars, syncReq, creditVars, roleVars,
                   costVars>>

\* a query of the listing is rejected: the answer is 500
KeyListFails(r) ==
    /\ keyReq[r].pc \in {"listUser", "listKeys"}
    /\ faults < MaxFaults
    /\ faults' = faults + 1
    /\ KeyRespond(r, 500)
    /\ UNCHANGED <<db, rowLock, nreq, http, pc, local, txn, res, overlapped, applied,
                   api_keys, uploadVars, createVars, syncReq, roleVars, costVars>>

\* the key user 1 has when the requests arrive
FirstKey == sk_fusion \o [i \in 1..HexLength |-> "a"]

\* the state before the first request: user 1 has one key, created earlier
InitKeys ==
    /\ users = InitUsers
    /\ user_credits = InitCredits
    /\ credit_transactions = InitTransactions
    /\ admin_actions_logs = <<>>
    /\ rowLock = [u \in UserIds |-> 0]
    /\ nreq = 0
    /\ http = [r \in Reqs |-> NoRequest]
    /\ pc = [r \in Reqs |-> "idle"]
    /\ local = [r \in Reqs |-> NoLocals]
    /\ txn = [r \in Reqs |-> NoWrites]
    /\ res = [r \in Reqs |-> NoResponse]
    /\ faults = 0
    /\ overlapped = [r \in Reqs |-> FALSE]
    /\ applied = {}
    /\ roles = InitRoles
    /\ roleReq = [r \in Reqs |-> NoRoleRequest]
    /\ models = <<>>
    /\ app_config = SeedConfig
    /\ call = NoCall
    /\ emails = InitEmails
    /\ users_id_seq = 2
    /\ createReq = [r \in Reqs |-> NoCreateRequest]
    /\ syncReq = [r \in Reqs |-> NoSyncRequest]
    /\ tmp = [p \in TempPaths |-> NoFile]
    /\ spaces = <<>>
    /\ uploads = [r \in Reqs |-> NoUpload]
    /\ api_keys = <<[id |-> 1, user_id |-> 1, name |-> <<"k">>, api_key |-> FirstKey,
                     created_at |-> 0]>>
    /\ keyReq = [r \in Reqs |-> NoKeyRequest]

NextKeys ==
    \E r \in Reqs :
        \/ \E q \in KeyCreateRequests : KeyCreateArrive(r, q)
        \/ \E apiKey \in GeneratedKeys : KeySelectUser(r, apiKey)
        \/ KeyInsert(r)
        \/ KeyLog(r)
        \/ KeyCommit(r)
        \/ KeyQueryFails(r)
        \/ KeyCatch(r)
        \/ \E q \in KeyListRequests : KeyListArrive(r, q)
        \/ KeyListUser(r)
        \/ KeyListKeys(r)
        \/ KeyListFails(r)

\* key-creation and key-listing requests served concurrently
SpecKeys == InitKeys /\ [][NextKeys]_vars

\* --------------------------------------------------- claims on the API keys
\* the stored key a listing entry stands for
StoredKey(id) ==
    (CHOOSE row \in {api_keys[i] : i \in DOMAIN api_keys} : row.id = id).api_key

\* the first 12 and the last 4 characters of a key
Shown(api_key) ==
    <<SubSeq(api_key, 1, 12), SubSeq(api_key, Len(api_key) - 3, Len(api_key))>>

\* the entries of the listing responses given so far
ListedEntries ==
    UNION {{keyReq[r].res.api_keys[i] : i \in DOMAIN keyReq[r].res.api_keys} :
              r \in Reqs}

\* the response to request r contains this key in full
ResponseContains(r, api_key) ==
    \/ Includes(keyReq[r].res.api_key, api_key)
    \/ \E i \in DOMAIN keyReq[r].res.api_keys :
          \/ Includes(keyReq[r].res.api_keys[i].api_key_masked, api_key)
          \/ Includes(keyReq[r].res.api_keys[i].name, api_key)

\* C30: a full API key is returned only once, in the 201 response of the
\* request that created it; a listing returns for each key its first 12 and
\* last 4 characters around "...", so two stored keys that agree on those 16
\* characters are listed identically, and no listing response contains a
\* full key.
C30_FullKeyOnlyAtCreation ==
    /\ \A i \in DOMAIN api_keys :
          LET row == api_keys[i]
              creators == {r \in Reqs : keyReq[r].id = row.id}
          IN  /\ {r \in Reqs : ResponseContains(r, row.api_key)} = creators
              /\ \A r \in creators :
                    keyReq[r].res.status = 201 /\ keyReq[r].res.api_key = row.api_key
    /\ \A e \in ListedEntries :
          /\ e.api_key_masked = Shown(StoredKey(e.id))[1] \o <<".", ".", ".">>
                                    \o Shown(StoredKey(e.id))[2]
          /\ \A f \in ListedEntries :
                Shown(StoredKey(e.id)) = Shown(StoredKey(f.id))
                    => e.api_key_masked = f.api_key_masked
    /\ \A r \in Reqs, api_key \in GeneratedKeys :
          keyReq[r].res.api_keys # <<>> => ~ResponseContains(r, api_key)

\* a key was created and returned in full, and a listing then showed it and
\* the user's first key, which differ, with the same masked text
C30_Witness ==
    \E r \in Reqs, s \in Reqs :
        /\ keyReq[r].res.status = 201
        /\ keyReq[r].res.api_key # FirstKey
        /\ keyReq[s].res.status = 200
        /\ Len(keyReq[s].res.api_keys) = 2
        /\ keyReq[s].res.api_keys[1].id = keyReq[r].id
        /\ StoredKey(keyReq[s].res.api_keys[2].id) = FirstKey
        /\ keyReq[s].res.api_keys[1].api_key_masked
               = keyReq[s].res.api_keys[2].api_key_masked

====
